---- MODULE Spec2Model ----
(***************************************************************************)
(* Recruitment_Auto: the two persistence sinks of the crawl pipeline.      *)
(*                                                                         *)
(*   db    the "jobs" table behind storage/database.py (Database)          *)
(*   file  data/jobs.json, read and rewritten by exporter.py (JSONExporter)*)
(*                                                                         *)
(*   op        the operation that produced the current state               *)
(*   recorded  history: for each id, the first_seen_at the snapshot file   *)
(*             held the first time the id was written to it (kept by       *)
(*             SpecSnapshotHistory only)                                   *)
(*   arg       what the call in progress is given: its arguments and what  *)
(*             the sites and the store answer during the call              *)
(*   ret       what the last call returned, raised and logged              *)
(*   issued    history: the (source, source_id, id) triples of the         *)
(*             postings the adapters have built (kept by SpecIdentity)     *)
(*   run       the run of the orchestrator in progress, if there is one:   *)
(*             its sink, its place in CRAWLERS, its total_jobs             *)
(*                                                                         *)
(* Time is counted in whole hours.  One handler reads datetime.now()       *)
(* several times within a few milliseconds; at this resolution all the     *)
(* reads of one call return the same hour, the value of now.               *)
(***************************************************************************)
EXTENDS Integers, Sequences, FiniteSets, TLC

VARIABLES now, ticks, db, file, op, recorded, arg, ret, issued, run

vars == <<now, ticks, db, file, op, recorded, arg, ret, issued, run>>

\* The variables of a single call: untouched by the operations that take
\* their batch as given.
callVars == <<arg, ret, issued, run>>

\* ------------------------------------------------------------- bounds
MaxBatch == 2      \* postings handed to a sink by one run
MaxTicks == 3      \* clock advances in one behaviour
MaxTitleWords == 2 \* words a title is made of
MaxItems == 2      \* listing items one crawl() extracts
MaxConditionWords == 2 \* words a condition text is made of
MaxYears == 2      \* years the clock is read in

\* ---------------------------------------------------------- constants
new_threshold_hours == 48

\* Optional values: None, or a one-element tuple holding the value.
None == <<>>
Some(x) == <<x>>

\* Posting identities: the 12-hex-digit digests generate_id returns for
\* "saramin_48213377" and "saramin_48213378".  Every operation of either
\* sink treats the entries of different ids independently, so two
\* identities show every interaction there is.
Ids == {"af4a0e331bf7", "03f769dbdb07"}

\* The clock moves by one hour or by 47 hours, so that T+47h, T+48h and
\* T+49h are all reached from a sighting at T.
TickSteps == {1, 47}

\* The calendar instants the sites announce as deadlines: hour 1 and hour 49.
\* Each is ahead of the clock, equal to it and behind it at some reachable
\* time.  A posting may also carry no deadline.
DeadlineTimes == {1, 49}

\* datetime.isoformat() / datetime.fromisoformat(): a string that is not the
\* datetime itself and parses back to it.
isoformat(t) == <<"iso", t>>
fromisoformat(s) == s[2]

\* ---------------------------------------------------------- JobPosting
\* A posting as an adapter returns it: is_active and is_new take the model's
\* defaults, no adapter sets them.
JobPosting(i, d) == [id |-> i, deadline |-> d, is_active |-> TRUE, is_new |-> TRUE]

Postings ==
    {JobPosting(i, d) : i \in Ids, d \in {None} \cup {Some(t) : t \in DeadlineTimes}}

RECURSIVE SeqsUpTo(_, _)
SeqsUpTo(S, n) ==
    IF n = 0 THEN {<<>>}
    ELSE LET shorter == SeqsUpTo(S, n - 1)
         IN shorter \cup {Append(s, x) : s \in {q \in shorter : Len(q) = n - 1}, x \in S}

\* The batches (total_jobs) a run can collect.
Batches == SeqsUpTo(Postings, MaxBatch)

\* ------------------------------------------------------------ Database
to_job_table(job) ==
    [deadline |-> job.deadline, is_active |-> job.is_active, is_new |-> job.is_new]

\* A faulty upsert: the update revives the row.
UpdateExisting_Reactivating(existing, job) ==
    [existing EXCEPT !.deadline = job.deadline, !.is_new = FALSE, !.is_active = TRUE]

\* A faulty upsert: a re-sighted row is new again.
UpdateExisting_Renewing(existing, job) ==
    [existing EXCEPT !.deadline = job.deadline, !.is_new = TRUE]

\* save_jobs, the branch for an id the session already holds.
UpdateExisting(existing, job) ==
    [existing EXCEPT !.deadline = job.deadline, !.is_new = FALSE]

\* save_jobs, the branch for an id the session does not hold.
InsertNew(job) ==
    [to_job_table(job) EXCEPT !.is_new = TRUE]

\* The loop of save_jobs.  The session autoflushes before each query, so a
\* row added earlier in the same batch is found by the lookup.
RECURSIVE save_jobs(_, _)
save_jobs(rows, jobs) ==
    IF jobs = <<>> THEN rows
    ELSE LET job == Head(jobs)
             merged == IF job.id \in DOMAIN rows
                       THEN [rows EXCEPT ![job.id] = UpdateExisting(@, job)]
                       ELSE rows @@ (job.id :> InsertNew(job))
         IN save_jobs(merged, Tail(jobs))

\* A faulty expiry test: a deadline equal to the clock counts as passed.
IsExpiredRow_Inclusive(row, t) ==
    /\ row.deadline # None
    /\ row.deadline[1] <= t
    /\ row.is_active = TRUE

IsExpiredRow(row, t) ==
    /\ row.deadline # None
    /\ row.deadline[1] < t
    /\ row.is_active = TRUE

\* A faulty expiry: the expired rows are deleted instead of flagged.
mark_expired_jobs_Deleting(rows, t) ==
    [i \in {j \in DOMAIN rows : ~IsExpiredRow(rows[j], t)} |-> rows[i]]

mark_expired_jobs(rows, t) ==
    [i \in DOMAIN rows |->
        IF IsExpiredRow(rows[i], t) THEN [rows[i] EXCEPT !.is_active = FALSE]
        ELSE rows[i]]

mark_as_read(rows, job_id) ==
    IF job_id \in DOMAIN rows
    THEN [rows EXCEPT ![job_id] = [@ EXCEPT !.is_new = FALSE]]
    ELSE rows

\* -------------------------------------------------------- JSONExporter
job_to_dict(job) ==
    [deadline |-> IF job.deadline # None THEN isoformat(job.deadline[1]) ELSE None,
     is_new |-> job.is_new]

\* A faulty freshness test: a posting first seen exactly 48 hours ago is no
\* longer new.
IsNewByAge_Strict(first_seen_at, t) ==
    (t - fromisoformat(first_seen_at)) < new_threshold_hours

IsNewByAge(first_seen_at, t) ==
    (t - fromisoformat(first_seen_at)) <= new_threshold_hours

\* A faulty merge: a re-sighted posting is never new (the store's rule).
MergeJob_ResightNotNew(existing_jobs, job, t) ==
    LET job_dict == job_to_dict(job)
    IN IF job.id \in DOMAIN existing_jobs
       THEN [existing_jobs EXCEPT ![job.id] =
                [deadline |-> job_dict.deadline,
                 first_seen_at |-> existing_jobs[job.id].first_seen_at,
                 is_new |-> FALSE]]
       ELSE existing_jobs @@ (job.id :> [deadline |-> job_dict.deadline,
                                         first_seen_at |-> isoformat(t),
                                         is_new |-> TRUE])

\* A faulty merge: a re-sighting overwrites first_seen_at with the clock.
MergeJob_ForgetsFirstSeen(existing_jobs, job, t) ==
    LET job_dict == job_to_dict(job)
        entry == [deadline |-> job_dict.deadline,
                  first_seen_at |-> isoformat(t),
                  is_new |-> TRUE]
    IN IF job.id \in DOMAIN existing_jobs
       THEN [existing_jobs EXCEPT ![job.id] = entry]
       ELSE existing_jobs @@ (job.id :> entry)

\* One iteration of the merge loop of export_jobs.
MergeJob(existing_jobs, job, t) ==
    LET job_dict == job_to_dict(job)
        entry == IF job.id \notin DOMAIN existing_jobs
                 THEN [deadline |-> job_dict.deadline,
                       first_seen_at |-> isoformat(t),
                       is_new |-> TRUE]
                 ELSE LET first_seen_at == existing_jobs[job.id].first_seen_at
                      IN [deadline |-> job_dict.deadline,
                          first_seen_at |-> first_seen_at,
                          is_new |-> IsNewByAge(first_seen_at, t)]
    IN IF job.id \in DOMAIN existing_jobs
       THEN [existing_jobs EXCEPT ![job.id] = entry]
       ELSE existing_jobs @@ (job.id :> entry)

RECURSIVE MergeJobs(_, _, _)
MergeJobs(existing_jobs, jobs, t) ==
    IF jobs = <<>> THEN existing_jobs
    ELSE MergeJobs(MergeJob(existing_jobs, Head(jobs), t), Tail(jobs), t)

\* A faulty filter: a deadline equal to the clock counts as passed.
IsExpiredDict_Inclusive(job, t) ==
    /\ job.deadline # None
    /\ fromisoformat(job.deadline) <= t

\* The filter of export_jobs: a dict is dropped when its deadline has passed.
IsExpiredDict(job, t) ==
    /\ job.deadline # None
    /\ fromisoformat(job.deadline) < t

\* A faulty filter: a dict that is no longer new is dropped as well.
ActiveJobs_DropsNotNew(existing_jobs, t) ==
    [i \in {j \in DOMAIN existing_jobs :
                ~IsExpiredDict(existing_jobs[j], t) /\ existing_jobs[j].is_new} |->
        existing_jobs[i]]

ActiveJobs(existing_jobs, t) ==
    [i \in {j \in DOMAIN existing_jobs : ~IsExpiredDict(existing_jobs[j], t)} |->
        existing_jobs[i]]

\* A faulty load: the file of the previous run is never read.
LoadExisting_Nothing(f) == IF f.exists THEN <<>> ELSE <<>>

\* A faulty load: what a damaged file still shows is taken for the ledger.
LoadExisting_Salvaging(f) ==
    IF f.exists THEN (IF "jobs" \in DOMAIN f THEN f.jobs ELSE f.text) ELSE <<>>

\* The prior ledger export_jobs loads: the jobs of the file, or nothing when
\* there is no file or when reading it raises (a file that cannot be read or
\* parsed has text in place of jobs).
LoadExisting(f) == IF f.exists /\ "jobs" \in DOMAIN f THEN f.jobs ELSE <<>>

\* _calculate_stats: the total, the new and the expiring counts.  The clock
\* counts hours, and timedelta.days is the number of whole days, rounded down.
calculate_stats(jobs, t) ==
    LET days_left(job) == (fromisoformat(job.deadline) - t) \div 24
    IN [total |-> Cardinality(DOMAIN jobs),
        new |-> Cardinality({i \in DOMAIN jobs : jobs[i].is_new}),
        expiring_7days |->
            Cardinality({i \in DOMAIN jobs :
                            /\ jobs[i].deadline # None
                            /\ 0 <= days_left(jobs[i])
                            /\ days_left(jobs[i]) <= 7})]

export_jobs(f, jobs, t) ==
    LET active_jobs == ActiveJobs(MergeJobs(LoadExisting(f), jobs, t), t)
    IN [exists |-> TRUE,
        stats |-> calculate_stats(active_jobs, t),
        jobs |-> active_jobs]

\* History of the writes of export_jobs: an id keeps the first_seen_at of the
\* first snapshot that held it.
Recorded(history, f) ==
    [i \in DOMAIN history \cup DOMAIN f.jobs |->
        IF i \in DOMAIN history THEN history[i] ELSE f.jobs[i].first_seen_at]

\* ---------------------------------------------------------------- Init
Init ==
    /\ now = 0
    /\ ticks = 0
    /\ db = <<>>
    /\ file = [exists |-> FALSE, jobs |-> <<>>]
    /\ op = "init"
    /\ recorded = <<>>
    /\ arg = None
    /\ ret = None
    /\ issued = {}
    /\ run = None

\* ------------------------------------------------------------- actions
Tick(d) ==
    /\ ticks < MaxTicks
    /\ now' = now + d
    /\ ticks' = ticks + 1
    /\ op' = "tick"
    /\ UNCHANGED <<db, file, recorded>>
    /\ UNCHANGED callVars

SaveJobs(jobs) ==
    /\ db' = save_jobs(db, jobs)
    /\ op' = "save_jobs"
    /\ UNCHANGED <<now, ticks, file, recorded>>
    /\ UNCHANGED callVars

MarkExpiredJobs ==
    /\ db' = mark_expired_jobs(db, now)
    /\ op' = "mark_expired_jobs"
    /\ UNCHANGED <<now, ticks, file, recorded>>
    /\ UNCHANGED callVars

MarkAsRead(job_id) ==
    /\ db' = mark_as_read(db, job_id)
    /\ op' = "mark_as_read"
    /\ UNCHANGED <<now, ticks, file, recorded>>
    /\ UNCHANGED callVars

\* run_crawlers: the collected batch is saved when it is not empty, then the
\* expired rows are marked.
run_crawlers(rows, total_jobs, t) ==
    mark_expired_jobs(IF total_jobs # <<>> THEN save_jobs(rows, total_jobs) ELSE rows, t)

RunCrawlers(total_jobs) ==
    /\ db' = run_crawlers(db, total_jobs, now)
    /\ op' = "run_crawlers"
    /\ UNCHANGED <<now, ticks, file, recorded>>
    /\ UNCHANGED callVars

ExportJobs(jobs) ==
    /\ file' = export_jobs(file, jobs, now)
    /\ op' = "export_jobs"
    /\ UNCHANGED <<now, ticks, db, recorded>>
    /\ UNCHANGED callVars

\* export_jobs with the history of its writes kept.
ExportJobsRecorded(jobs) ==
    /\ file' = export_jobs(file, jobs, now)
    /\ recorded' = Recorded(recorded, file')
    /\ op' = "export_jobs"
    /\ UNCHANGED <<now, ticks, db>>
    /\ UNCHANGED callVars

\* crawl-to-json: the exporter runs only when the batch is not empty.
crawl_to_json(f, total_jobs, t) ==
    IF total_jobs # <<>> THEN export_jobs(f, total_jobs, t) ELSE f

CrawlToJson(total_jobs) ==
    /\ file' = crawl_to_json(file, total_jobs, now)
    /\ op' = "crawl_to_json"
    /\ UNCHANGED <<now, ticks, db, recorded>>
    /\ UNCHANGED callVars

\* The batches in which no id occurs twice: what the runs collect when every
\* adapter has deduplicated its own list.
DistinctBatches ==
    {jobs \in Batches : \A k, l \in 1..Len(jobs) : jobs[k].id = jobs[l].id => k = l}

\* Both sinks fed the same batch at the same time: the store by save_jobs
\* followed by mark_expired_jobs, the snapshot by export_jobs.
FeedBoth(jobs) ==
    /\ db' = mark_expired_jobs(save_jobs(db, jobs), now)
    /\ file' = export_jobs(file, jobs, now)
    /\ op' = "feed_both"
    /\ UNCHANGED <<now, ticks, recorded>>
    /\ UNCHANGED callVars

\* ------------------------------------------------------ specifications
\* The stateful store on its own.
SpecStore ==
    Init /\ [][\/ \E d \in TickSteps : Tick(d)
               \/ \E jobs \in Batches : SaveJobs(jobs)
               \/ MarkExpiredJobs
               \/ \E job_id \in Ids : MarkAsRead(job_id)
               \/ \E jobs \in Batches : RunCrawlers(jobs)]_vars

\* The snapshot exporter on its own.
SpecSnapshot ==
    Init /\ [][\/ \E d \in TickSteps : Tick(d)
               \/ \E jobs \in Batches : ExportJobs(jobs)
               \/ \E jobs \in Batches : CrawlToJson(jobs)]_vars

\* The snapshot exporter with the history of what it wrote.
SpecSnapshotHistory ==
    Init /\ [][\/ \E d \in TickSteps : Tick(d)
               \/ \E jobs \in Batches : ExportJobsRecorded(jobs)]_vars

\* The two sinks side by side, given the same input history.
SpecPair ==
    Init /\ [][\/ \E d \in TickSteps : Tick(d)
               \/ \E jobs \in DistinctBatches : FeedBoth(jobs)]_vars

\* --------------------------------------------------------- BaseCrawler
\* JobSource: the values of the enumeration.
JobSources == {"saramin", "inthiswork"}

\* hashlib.md5(unique_str.encode()).hexdigest()[:12], tabulated for the
\* strings the postings of the model are hashed from.
md5_hexdigest_12(unique_str) ==
    CASE unique_str = "saramin_48213377" -> "af4a0e331bf7"
      [] unique_str = "saramin_48213378" -> "03f769dbdb07"
      [] unique_str = "inthiswork_48213377" -> "f4f7194bf2c6"
      [] unique_str = "inthiswork_48213378" -> "65223e6368bb"
      [] unique_str = "saramin_" -> "63f959b7e087"
      [] unique_str = "saramin_Data Analyst" -> "85a30e04294a"
      [] unique_str = "saramin_Data Analyst Intern" -> "789918bf5d97"
      [] unique_str = "inthiswork_Data Analyst" -> "2213343161a2"
      [] unique_str = "inthiswork_Data Analyst Intern" -> "e665bde80f6d"

generate_id(source, source_id) ==
    LET unique_str == source \o "_" \o source_id
    IN md5_hexdigest_12(unique_str)

\* The (source, source_id) pairs of the listing items the sites serve: two
\* items of one site, and an item of the other site that shares a site-native
\* id with one of them.
ListedPairs ==
    {<<"saramin", "48213377">>, <<"saramin", "48213378">>, <<"inthiswork", "48213377">>}

\* A listing item as an adapter extracts it from a page.
ListedItems ==
    {[source |-> p[1], source_id |-> p[2], title |-> title] :
        p \in ListedPairs, title \in {"Data Analyst", "Data Analyst Intern"}}

\* A faulty adapter: the id is hashed from the title of the item.
ParsedPosting_IdFromTitle(item) ==
    JobPosting(generate_id(item.source, item.title), None)

\* The posting an adapter builds for an item (_parse_job_card,
\* _parse_job_item, _parse_job_from_link): id=generate_id(source, source_id).
ParsedPosting(item) ==
    JobPosting(generate_id(item.source, item.source_id), None)

ParsedPostings(items) == [k \in 1..Len(items) |-> ParsedPosting(items[k])]

\* History of the ids the adapters gave out.
Issued(history, items) ==
    history \cup {<<items[k].source, items[k].source_id, ParsedPosting(items[k]).id>> :
                    k \in 1..Len(items)}

\* The lists of items one run can collect; an item may be listed twice.
ItemLists == SeqsUpTo(ListedItems, MaxBatch)

\* A run of run_crawlers over the items the sites list; the run reports how
\* many postings it collected.
CrawlAndSave(items) ==
    /\ db' = run_crawlers(db, ParsedPostings(items), now)
    /\ issued' = Issued(issued, items)
    /\ ret' = [collected |-> Len(items)]
    /\ op' = "run_crawlers"
    /\ UNCHANGED <<now, ticks, file, recorded, arg, run>>

\* A run of crawl-to-json over the items the sites list.
CrawlAndExport(items) ==
    /\ file' = crawl_to_json(file, ParsedPostings(items), now)
    /\ issued' = Issued(issued, items)
    /\ ret' = [collected |-> Len(items)]
    /\ op' = "crawl_to_json"
    /\ UNCHANGED <<now, ticks, db, recorded, arg, run>>

\* Both sinks fed from the listings, each by its own runs.  The postings
\* built here carry no deadline, so nothing expires and the clock is left
\* where it is.
SpecIdentity ==
    Init /\ [][\/ \E items \in ItemLists : CrawlAndSave(items)
               \/ \E items \in ItemLists : CrawlAndExport(items)]_vars

\* ---------------------------------------------------- snapshot round trip
\* The deadlines a ledger holds, parsed back from their ISO strings.
LedgerDeadlines(existing_jobs) ==
    [i \in DOMAIN existing_jobs |->
        IF existing_jobs[i].deadline = None THEN None
        ELSE Some(fromisoformat(existing_jobs[i].deadline))]

\* What a batch reports: for each of its ids, the deadline of the last
\* posting of that id.
LatestReported(jobs) ==
    [i \in {jobs[k].id : k \in 1..Len(jobs)} |->
        jobs[CHOOSE k \in 1..Len(jobs) :
                /\ jobs[k].id = i
                /\ \A l \in (k + 1)..Len(jobs) : jobs[l].id # i].deadline]

\* export_jobs, with what the run was given kept in arg (the deadlines of the
\* ledger it read, the deadlines its batch reported) and what it logged kept
\* in ret (the number of jobs written, whether a file was there to read).
ExportJobsRoundTrip(jobs) ==
    /\ file' = export_jobs(file, jobs, now)
    /\ arg' = [ledger |-> LedgerDeadlines(LoadExisting(file)),
               reported |-> LatestReported(jobs)]
    /\ ret' = [total |-> file'.stats.total, read_prior |-> file.exists]
    /\ op' = "export_jobs"
    /\ UNCHANGED <<now, ticks, db, recorded, issued, run>>

\* Consecutive exports, each reading the file the one before it wrote.
SpecRoundTrip ==
    Init /\ [][\/ \E d \in TickSteps : Tick(d)
               \/ \E jobs \in Batches : ExportJobsRoundTrip(jobs)]_vars

\* ------------------------------------------------- save_jobs, with errors
\* The rows as the session of save_jobs sees them once the first n postings
\* of the batch have been through the loop: flushed, not yet committed.
SessionRows(rows, jobs, n) == save_jobs(rows, SubSeq(jobs, 1, n))

\* session.commit(): the rows of the session become the rows of the table.
commit(rows, pending) == pending

\* A faulty rollback: what the session had flushed stays in the table.
rollback_KeepsFlushed(rows, pending) == pending

\* session.rollback(): the rows of the session are discarded.
rollback(rows, pending) == rows

\* The places where one call can raise: nowhere (0), while the k-th posting
\* is processed (the lookup and its flush, _to_job_table, session.add), or
\* in session.commit() (one past the batch).
FailurePoints(jobs) == 0..(Len(jobs) + 1)

\* save_jobs as a whole: try (the loop, then commit), except (rollback,
\* raise), finally (close).
save_jobs_call(rows, jobs, fail_at) ==
    IF fail_at = 0
    THEN [rows |-> commit(rows, SessionRows(rows, jobs, Len(jobs))),
          raised |-> FALSE,
          session |-> "closed"]
    ELSE [rows |-> rollback(rows, SessionRows(rows, jobs, fail_at - 1)),
          raised |-> TRUE,
          session |-> "closed"]

SaveJobsCall(jobs, fail_at) ==
    /\ db' = save_jobs_call(db, jobs, fail_at).rows
    /\ arg' = [fail_at |-> fail_at]
    /\ ret' = [raised |-> save_jobs_call(db, jobs, fail_at).raised,
               session |-> save_jobs_call(db, jobs, fail_at).session]
    /\ op' = "save_jobs"
    /\ UNCHANGED <<now, ticks, file, recorded, issued, run>>

\* The store, with calls of save_jobs that may fail.
SpecStoreErrors ==
    Init /\ [][\/ \E d \in TickSteps : Tick(d)
               \/ \E jobs \in Batches : \E fail_at \in FailurePoints(jobs) : SaveJobsCall(jobs, fail_at)
               \/ MarkExpiredJobs]_vars

\* -------------------------------------------------------- orchestrator
\* main.CRAWLERS, by class name.
CRAWLERS ==
    <<"SaraminCrawler", "JobKoreaCrawler", "WantedCrawler",
      "RocketPunchCrawler", "LinkedInCrawler", "JobTalioCrawler">>

\* The two commands that walk CRAWLERS, named by their sink.
Sinks == {"database", "json"}

\* What one adapter does in its turn.  raises says where an exception leaves
\* the "async with" block: in CrawlerClass() or __aenter__ ("enter"), in
\* crawl() ("crawl"), in __aexit__ after the body has finished ("exit"), or
\* nowhere ("none").  jobs is what crawl() returned (nothing, or one posting
\* without a deadline), detail_raises whether get_job_detail raised for a
\* posting of jobs.
Outcomes ==
    {[raises |-> r, jobs |-> <<>>, detail_raises |-> FALSE] :
        r \in {"enter", "crawl", "exit", "none"}}
    \cup {[raises |-> r, jobs |-> <<JobPosting(i, None)>>, detail_raises |-> d] :
            r \in {"exit", "none"}, i \in Ids, d \in BOOLEAN}

\* A faulty turn: the postings are added to total_jobs only once the adapter's
\* session has been torn down without error.
crawler_turn_ExtendAfterExit(total_jobs, outcome) ==
    IF outcome.raises = "none" THEN total_jobs \o outcome.jobs ELSE total_jobs

\* The body of the loop over CRAWLERS, total_jobs after one turn.  An error
\* raised on entry or by crawl() is caught before total_jobs.extend(jobs) is
\* reached; an error of get_job_detail is caught inside the inner loop; an
\* error raised on exit is caught after the extend.
crawler_turn(total_jobs, outcome) ==
    IF outcome.raises \in {"enter", "crawl"} THEN total_jobs
    ELSE total_jobs \o outcome.jobs

\* run_crawlers / crawl_to_json.run up to the loop.
StartRun(sink) ==
    /\ run = None
    /\ run' = Some([sink |-> sink, next |-> 1, total_jobs |-> <<>>])
    /\ op' = "start"
    /\ UNCHANGED <<now, ticks, db, file, recorded, arg, ret, issued>>

\* One turn of the loop: the adapter CRAWLERS[next] has its turn and the
\* loop moves on, whatever the adapter did.
CrawlerTurn(outcome) ==
    /\ run # None
    /\ run[1].next <= Len(CRAWLERS)
    /\ run' = Some([run[1] EXCEPT !.next = @ + 1,
                                  !.total_jobs = crawler_turn(@, outcome)])
    /\ arg' = outcome
    /\ ret' = [crawler |-> CRAWLERS[run[1].next]]
    /\ op' = "turn"
    /\ UNCHANGED <<now, ticks, db, file, recorded, issued>>

\* After the loop: total_jobs goes to the sink of the command.
FinishRun ==
    /\ run # None
    /\ run[1].next = Len(CRAWLERS) + 1
    /\ IF run[1].sink = "database"
       THEN /\ db' = run_crawlers(db, run[1].total_jobs, now)
            /\ UNCHANGED file
       ELSE /\ file' = crawl_to_json(file, run[1].total_jobs, now)
            /\ UNCHANGED db
    /\ run' = None
    /\ ret' = [total_jobs |-> run[1].total_jobs]
    /\ op' = "finish"
    /\ UNCHANGED <<now, ticks, recorded, arg, issued>>

\* Runs of the two commands, one after the other.  Their postings carry no
\* deadline, so nothing expires and the clock is left where it is.
SpecRuns ==
    Init /\ [][\/ \E sink \in Sinks : StartRun(sink)
               \/ \E outcome \in Outcomes : CrawlerTurn(outcome)
               \/ FinishRun]_vars

\* ------------------------------------------------------ relevance filter
\* Texts are sequences of characters.  An ASCII character is the string of
\* that character; a Hangul syllable is written as its romanisation between
\* angle brackets, one element of the sequence like any other character.
Chars(s) == [i \in 1..Len(s) |-> SubSeq(s, i, i)]

Hangul(syllables) == [i \in 1..Len(syllables) |-> "<" \o syllables[i] \o ">"]

LowerOf ==
    LET ascii_uppercase == "ABCDEFGHIJKLMNOPQRSTUVWXYZ"
        ascii_lowercase == "abcdefghijklmnopqrstuvwxyz"
    IN [c \in {SubSeq(ascii_uppercase, i, i) : i \in 1..Len(ascii_uppercase)} |->
           LET i == CHOOSE k \in 1..Len(ascii_uppercase) : SubSeq(ascii_uppercase, k, k) = c
           IN SubSeq(ascii_lowercase, i, i)]

\* A faulty lower(): the text is left as it is.
lower_Unchanged(text) == [i \in 1..Len(text) |-> text[i]]

\* str.lower(): the letters A-Z are folded, a Hangul syllable has no case.
lower(text) ==
    [i \in 1..Len(text) |-> IF text[i] \in DOMAIN LowerOf THEN LowerOf[text[i]] ELSE text[i]]

\* Python's "needle in haystack" on strings.
Contains(needle, haystack) ==
    \E i \in 0..(Len(haystack) - Len(needle)) :
        SubSeq(haystack, i + 1, i + Len(needle)) = needle

\* FilterSettings, the defaults.
job_keywords ==
    {Hangul(<<"de", "i", "teo">>) \o Chars(" ") \o Hangul(<<"bun", "seok">>),
     Hangul(<<"de", "i", "teo", "bun", "seok">>),
     Chars("Data Analyst"),
     Chars("Data Analysis"),
     Hangul(<<"de", "i", "teo">>) \o Chars(" ") \o Hangul(<<"sa", "i", "eon", "ti", "seu", "teu">>),
     Chars("Data Scientist"),
     Chars("BI ") \o Hangul(<<"bun", "seok">>),
     Hangul(<<"bi", "jeu", "ni", "seu">>) \o Chars(" ") \o Hangul(<<"bun", "seok">>),
     Hangul(<<"de", "i", "teo">>) \o Chars(" ") \o Hangul(<<"en", "ji", "ni", "eo">>),
     Chars("Data Engineer"),
     Hangul(<<"meo", "sin", "reo", "ning">>),
     Chars("ML Engineer")}

experience_keywords ==
    {Hangul(<<"sin", "ip">>),
     Hangul(<<"gyeong", "ryeok", "mu", "gwan">>),
     Hangul(<<"gyeong", "ryeok">>) \o Chars(" ") \o Hangul(<<"mu", "gwan">>),
     Hangul(<<"in", "teon">>),
     Chars("Intern"),
     Chars("Junior"),
     Chars("Entry"),
     Chars("0") \o Hangul(<<"nyeon">>),
     Chars("1") \o Hangul(<<"nyeon">>),
     Chars("2") \o Hangul(<<"nyeon">>),
     Chars("3") \o Hangul(<<"nyeon">>)}

exclude_keywords ==
    {Hangul(<<"si", "ni", "eo">>),
     Chars("Senior"),
     Hangul(<<"tim", "jang">>),
     Hangul(<<"ri", "deu">>),
     Chars("Lead"),
     Chars("10") \o Hangul(<<"nyeon">>) \o Chars(" ") \o Hangul(<<"i", "sang">>)}

\* "x or ''" and "not x" for an optional string.
OrEmpty(x) == IF x = None THEN <<>> ELSE x[1]

Falsy(x) == x = None \/ x[1] = <<>>

\* A faulty filter: a posting without experience_text fails the last stage.
matches_filter_NeedsExperienceText(job) ==
    LET title_lower == lower(job.title)
        search_text == lower(job.title \o Chars(" ") \o OrEmpty(job.description))
        exp_text == lower(OrEmpty(job.experience_text))
    IN IF \E exclude \in exclude_keywords : Contains(lower(exclude), title_lower)
       THEN FALSE
       ELSE IF ~\E keyword \in job_keywords : Contains(lower(keyword), search_text)
       THEN FALSE
       ELSE \E exp_keyword \in experience_keywords : Contains(lower(exp_keyword), exp_text)

matches_filter(job) ==
    LET title_lower == lower(job.title)
        search_text == lower(job.title \o Chars(" ") \o OrEmpty(job.description))
        exp_text == lower(OrEmpty(job.experience_text))
    IN IF \E exclude \in exclude_keywords : Contains(lower(exclude), title_lower)
       THEN FALSE
       ELSE IF ~\E keyword \in job_keywords : Contains(lower(keyword), search_text)
       THEN FALSE
       ELSE IF \E exp_keyword \in experience_keywords : Contains(lower(exp_keyword), exp_text)
       THEN TRUE
       ELSE Falsy(job.experience_text)

\* The postings the filter is tried on.  A title is made of up to
\* MaxTitleWords of the words below, so that a keyword may stand in any
\* case, inside a longer word, or across the join of title and description.
TitleWords ==
    {Chars("Senior "),
     Chars("LEAD "),
     Chars("Data Analyst"),
     Hangul(<<"de", "i", "teo", "bun", "seok">>) \o Chars(" "),
     Hangul(<<"ha", "i", "beu", "ri", "deu">>) \o Chars(" "),
     Chars("Data"),
     Chars("Marketing ")}

Descriptions ==
    {<<>>,
     Chars("Analyst wanted"),
     Chars("Senior team, ML Engineer")}

ExperienceTexts ==
    {<<>>,
     Hangul(<<"sin", "ip">>),
     Chars("INTERN"),
     Hangul(<<"gyeong", "ryeok">>) \o Chars(" 5") \o Hangul(<<"nyeon">>) \o Chars(" ") \o Hangul(<<"i", "sang">>),
     Hangul(<<"gyeong", "ryeok">>) \o Chars(" 13") \o Hangul(<<"nyeon">>),
     Chars("lead 2") \o Hangul(<<"nyeon">>)}

RECURSIVE Join(_)
Join(words) == IF words = <<>> THEN <<>> ELSE Head(words) \o Join(Tail(words))

Titles == {Join(words) : words \in SeqsUpTo(TitleWords, MaxTitleWords)}

Optional(S) == {None} \cup {Some(x) : x \in S}

FilterPostings ==
    {[title |-> t, description |-> d, experience_text |-> e] :
        t \in Titles, d \in Optional(Descriptions), e \in Optional(ExperienceTexts)}

\* Nothing stored, no run in progress, the clock at its start.
AtRest ==
    /\ now = 0
    /\ ticks = 0
    /\ db = <<>>
    /\ file = [exists |-> FALSE, jobs |-> <<>>]
    /\ op = "init"
    /\ recorded = <<>>
    /\ issued = {}
    /\ run = None

InitFilter ==
    /\ AtRest
    /\ arg \in FilterPostings
    /\ ret = None

MatchesFilter ==
    /\ op = "init"
    /\ ret' = Some(matches_filter(arg))
    /\ op' = "matches_filter"
    /\ UNCHANGED <<now, ticks, db, file, recorded, arg, issued, run>>

SpecFilter ==
    InitFilter /\ [][MatchesFilter]_vars

\* ------------------------------------------------------------- adapters
\* String helpers, on texts as sequences of characters.  The string a
\* sequence of characters spells.
RECURSIVE Str(_)
Str(text) == IF text = <<>> THEN "" ELSE Head(text) \o Str(Tail(text))

DigitChars == {"0", "1", "2", "3", "4", "5", "6", "7", "8", "9"}

StartsWith(text, prefix) ==
    Len(prefix) <= Len(text) /\ SubSeq(text, 1, Len(prefix)) = prefix

\* The places where needle starts in text.
Occurrences(needle, text) ==
    {i \in 1..(Len(text) - Len(needle) + 1) : SubSeq(text, i, i + Len(needle) - 1) = needle}

Least(S) == CHOOSE x \in S : \A y \in S : x <= y

Greatest(S) == CHOOSE x \in S : \A y \in S : x >= y

\* text.split(sep)[0]
BeforeFirst(text, sep) ==
    IF Occurrences(sep, text) = {} THEN text
    ELSE SubSeq(text, 1, Least(Occurrences(sep, text)) - 1)

\* What follows the first sep in text; only used when sep occurs.
AfterFirst(text, sep) ==
    SubSeq(text, Least(Occurrences(sep, text)) + Len(sep), Len(text))

\* text.split(sep)[-1]
AfterLast(text, sep) ==
    IF Occurrences(sep, text) = {} THEN text
    ELSE SubSeq(text, Greatest(Occurrences(sep, text)) + Len(sep), Len(text))

\* str.strip()
strip(text) ==
    LET inked == {i \in 1..Len(text) : text[i] # " "}
    IN IF inked = {} THEN <<>> ELSE SubSeq(text, Least(inked), Greatest(inked))

\* int() of a run of decimal digits.
RECURSIVE int(_)
int(digits) ==
    IF digits = <<>> THEN 0
    ELSE 10 * int(SubSeq(digits, 1, Len(digits) - 1))
             + (CHOOSE d \in 0..9 : Chars("0123456789")[d + 1] = digits[Len(digits)])

\* The length of the longest run of characters of the set S that starts at
\* position i of text (what \d+ or \s* consumes there at most).
RunOf(S, text, i) ==
    CHOOSE n \in 0..(Len(text) + 1 - i) :
        /\ \A k \in 0..(n - 1) : text[i + k] \in S
        /\ (i + n > Len(text) \/ text[i + n] \notin S)

\* The regular expressions of the adapters are sequences of three kinds of
\* element: one character of a set, a captured run of min..max digits (max
\* 0: of any length), and \s*.
Lit(chars) == [kind |-> "lit", chars |-> chars]

Literal(text) == [k \in 1..Len(text) |-> Lit({text[k]})]

DigitGroup(min, max) == [kind |-> "digits", min |-> min, max |-> max]

OneOrMoreDigits == DigitGroup(1, 0)

Spaces == [kind |-> "spaces"]

\* The match of pattern that starts at position i of text (greedy, with
\* backtracking): the position after it and its groups, or None.
RECURSIVE MatchAt(_, _, _)
MatchAt(pattern, text, i) ==
    IF pattern = <<>> THEN Some([end |-> i, groups |-> <<>>])
    ELSE LET e == Head(pattern)
             rest(n) == MatchAt(Tail(pattern), text, i + n)
         IN IF e.kind = "lit"
            THEN (IF i <= Len(text) /\ text[i] \in e.chars THEN rest(1) ELSE None)
            ELSE LET S == IF e.kind = "digits" THEN DigitChars ELSE {" "}
                     min == IF e.kind = "digits" THEN e.min ELSE 0
                     longest == RunOf(S, text, i)
                     max == IF e.kind = "digits" /\ e.max # 0 /\ e.max < longest
                            THEN e.max ELSE longest
                     fits == {n \in min..max : rest(n) # None}
                     n == Greatest(fits)
                 IN IF fits = {} THEN None
                    ELSE IF e.kind = "digits"
                    THEN Some([end |-> rest(n)[1].end,
                               groups |-> <<SubSeq(text, i, i + n - 1)>> \o rest(n)[1].groups])
                    ELSE rest(n)

\* re.search(pattern, text): the leftmost match, as its group(0), group(1),
\* ..., or None.
re_search(pattern, text) ==
    LET starts == {i \in 1..(Len(text) + 1) : MatchAt(pattern, text, i) # None}
        i == Least(starts)
        m == MatchAt(pattern, text, i)[1]
    IN IF starts = {} THEN None
       ELSE Some([group |-> [n \in 0..Len(m.groups) |->
                                IF n = 0 THEN SubSeq(text, i, m.end - 1) ELSE m.groups[n]]])

\* The posting an adapter hands to the filter and returns from crawl().
CrawledPosting(source, source_id, title, experience_text) ==
    [id |-> generate_id(source, Str(source_id)),
     source_id |-> source_id,
     title |-> title,
     description |-> None,
     experience_text |-> Some(experience_text)]

\* The deduplication loop of crawl() in SaraminCrawler (and, word for word,
\* in the JobKorea, Wanted, RocketPunch, LinkedIn and JobTalio adapters): a
\* source_id is marked as seen before its posting is put to the filter.
RECURSIVE UniqueJobs(_, _)
UniqueJobs(all_jobs, seen_ids) ==
    IF all_jobs = <<>> THEN <<>>
    ELSE LET job == Head(all_jobs)
         IN IF job.source_id \in seen_ids
            THEN UniqueJobs(Tail(all_jobs), seen_ids)
            ELSE (IF matches_filter(job) THEN <<job>> ELSE <<>>)
                     \o UniqueJobs(Tail(all_jobs), seen_ids \cup {job.source_id})

\* ------------------------------------------------------- SaraminCrawler
saramin_extract_source_id(url) ==
    LET match == re_search(Literal(Chars("rec_idx=")) \o <<OneOrMoreDigits>>, url)
    IN IF match # None THEN match[1].group[1] ELSE AfterLast(url, Chars("/"))

\* _parse_job_card, for a card without .job_condition spans: the link is the
\* href of the title anchor ("" when the anchor has none), made absolute.
saramin_parse_job_card(card) ==
    LET BASE_URL == Chars("https://www.saramin.co.kr")
        link == IF StartsWith(card.href, Chars("/")) THEN BASE_URL \o card.href
                ELSE card.href
    IN CrawledPosting("saramin", saramin_extract_source_id(link), card.title, <<>>)

saramin_crawl(cards) ==
    UniqueJobs([k \in 1..Len(cards) |-> saramin_parse_job_card(cards[k])], {})

\* The result cards of the search pages: two cards of one posting (a
\* relative and an absolute link), a card of another posting, a card whose
\* link carries no rec_idx and ends in a slash, and a card whose title anchor
\* has no href.
SaraminCards ==
    LET hrefs == {Chars("/zf_user/jobs/relay/view?rec_idx=48213377&view_type=search"),
                  Chars("https://www.saramin.co.kr/zf_user/jobs/relay/view?rec_idx=48213377"),
                  Chars("/zf_user/jobs/relay/view?rec_idx=48213378"),
                  Chars("/zf_user/jobs/hot100/"),
                  <<>>}
        titles == {Chars("Data Analyst"), Chars("Data Analyst Intern"),
                   Chars("Senior Data Analyst")}
    IN {[href |-> h, title |-> t] : h \in hrefs, t \in titles}

\* ---------------------------------------------------- InthisworkCrawler
\* The full-width vertical bar between company and position in a link text.
FullwidthBar == <<"<|>">>

inthiswork_extract_source_id(url) ==
    LET match == re_search(Literal(Chars("/archives/")) \o <<OneOrMoreDigits>>, url)
        stripped == SubSeq(url, 1, Greatest({0} \cup {i \in 1..Len(url) : url[i] # "/"}))
        last == AfterLast(stripped, Chars("/"))
    IN IF url = <<>> THEN <<>>
       ELSE IF match # None THEN match[1].group[1]
       ELSE SubSeq(last, 1, IF Len(last) < 20 THEN Len(last) ELSE 20)

\* re.search over title for each of exp_patterns in turn; "" when none
\* matches.  The two patterns with digits give the text they matched.
inthiswork_experience_text(title) ==
    LET any == Literal(Hangul(<<"gyeong", "ryeok">>)) \o <<Spaces>> \o Literal(Hangul(<<"mu", "gwan">>))
        years_or_more == <<OneOrMoreDigits>> \o Literal(Hangul(<<"nyeon">>)) \o <<Spaces>> \o Literal(Hangul(<<"i", "sang">>))
        years_range == <<OneOrMoreDigits, Spaces, Lit({"~"}), Spaces, OneOrMoreDigits>>
                           \o Literal(Hangul(<<"nyeon">>))
    IN IF re_search(Literal(Hangul(<<"in", "teon">>)), title) # None THEN Hangul(<<"in", "teon">>)
       ELSE IF re_search(Literal(Hangul(<<"sin", "ip">>)), title) # None THEN Hangul(<<"sin", "ip">>)
       ELSE IF re_search(any, title) # None THEN Hangul(<<"gyeong", "ryeok", "mu", "gwan">>)
       ELSE IF re_search(years_or_more, title) # None
       THEN re_search(years_or_more, title)[1].group[0]
       ELSE IF re_search(years_range, title) # None
       THEN re_search(years_range, title)[1].group[0]
       ELSE <<>>

\* _parse_job_from_link: None when the text has no company or no position.
inthiswork_parse_job_from_link(url, title_text) ==
    IF ~Contains(FullwidthBar, title_text) THEN None
    ELSE LET company_name == strip(BeforeFirst(title_text, FullwidthBar))
             title == strip(BeforeFirst(AfterFirst(title_text, FullwidthBar), FullwidthBar))
         IN IF company_name = <<>> \/ title = <<>> THEN None
            ELSE Some(CrawledPosting("inthiswork", inthiswork_extract_source_id(url), title,
                                     inthiswork_experience_text(title)))

\* The first loop of _parse_job_list: unique_jobs, keyed by base_href, in
\* insertion order (a list of <<base_href, text>> pairs).
inthiswork_base_href(href) ==
    IF Contains(Chars("#comment"), href) \/ Contains(Chars("/comment-page"), href)
    THEN BeforeFirst(BeforeFirst(href, Chars("#")), Chars("/comment-page"))
    ELSE href

RECURSIVE inthiswork_unique_jobs(_, _)
inthiswork_unique_jobs(links, unique_jobs) ==
    IF links = <<>> THEN unique_jobs
    ELSE LET base_href == inthiswork_base_href(Head(links).href)
             text == Head(links).text
             fresh == /\ base_href # <<>>
                      /\ Contains(FullwidthBar, text)
                      /\ \A k \in 1..Len(unique_jobs) : unique_jobs[k][1] # base_href
         IN inthiswork_unique_jobs(Tail(links),
                IF fresh THEN Append(unique_jobs, <<base_href, text>>) ELSE unique_jobs)

\* The second loop of _parse_job_list.
RECURSIVE inthiswork_parse_all(_)
inthiswork_parse_all(unique_jobs) ==
    IF unique_jobs = <<>> THEN <<>>
    ELSE LET job == inthiswork_parse_job_from_link(Head(unique_jobs)[1], Head(unique_jobs)[2])
         IN (IF job = None THEN <<>> ELSE <<job[1]>>) \o inthiswork_parse_all(Tail(unique_jobs))

inthiswork_parse_job_list(links) == inthiswork_parse_all(inthiswork_unique_jobs(links, <<>>))

\* crawl(): the parsed postings that pass the filter.
inthiswork_crawl(links) == SelectSeq(inthiswork_parse_job_list(links), matches_filter)

\* The archive links of the listing page: a posting linked with and without
\* a trailing slash and from its comment page, and another posting.
InthisworkLinks ==
    LET hrefs == {Chars("https://inthiswork.com/archives/48213377"),
                  Chars("https://inthiswork.com/archives/48213377/"),
                  Chars("https://inthiswork.com/archives/48213377/comment-page-1/#comments"),
                  Chars("https://inthiswork.com/archives/48213378")}
        texts == {Chars("ACME") \o FullwidthBar \o Chars(" Data Analyst"),
                  Chars("ACME") \o FullwidthBar \o Chars("Data Analyst ") \o Hangul(<<"in", "teon">>),
                  Chars("ACME") \o FullwidthBar \o Chars("Data Analyst 3") \o Hangul(<<"nyeon">>)
                      \o Chars(" ") \o Hangul(<<"i", "sang">>),
                  Chars("Read more")}
    IN {[href |-> h, text |-> t] : h \in hrefs, t \in texts}

\* ------------------------------------------------------------- crawl()
\* What one crawl() extracts from the pages it fetched, adapter by adapter.
InitCrawl ==
    /\ AtRest
    /\ arg \in {[adapter |-> "saramin", items |-> cards] :
                    cards \in SeqsUpTo(SaraminCards, MaxItems)}
               \cup {[adapter |-> "inthiswork", items |-> links] :
                        links \in SeqsUpTo(InthisworkLinks, MaxItems)}
    /\ ret = None

SaraminCrawl ==
    /\ op = "init"
    /\ arg.adapter = "saramin"
    /\ ret' = Some(saramin_crawl(arg.items))
    /\ op' = "crawl"
    /\ UNCHANGED <<now, ticks, db, file, recorded, arg, issued, run>>

InthisworkCrawl ==
    /\ op = "init"
    /\ arg.adapter = "inthiswork"
    /\ ret' = Some(inthiswork_crawl(arg.items))
    /\ op' = "crawl"
    /\ UNCHANGED <<now, ticks, db, file, recorded, arg, issued, run>>

SpecCrawl ==
    InitCrawl /\ [][\/ SaraminCrawl
                    \/ InthisworkCrawl]_vars

\* ----------------------------------------------------- experience level
ExperienceLevel ==
    [INTERN |-> Hangul(<<"in", "teon">>),
     ENTRY |-> Hangul(<<"sin", "ip">>),
     ANY |-> Hangul(<<"gyeong", "ryeok", "mu", "gwan">>),
     JUNIOR |-> Hangul(<<"ju", "ni", "eo">>),
     EXPERIENCED |-> Hangul(<<"gyeong", "ryeok">>)]

\* _determine_experience_level of SaraminCrawler.
saramin_determine_experience_level(experience_text) ==
    LET text == lower(experience_text)
    IN IF Contains(Hangul(<<"in", "teon">>), text) THEN ExperienceLevel.INTERN
       ELSE IF Contains(Hangul(<<"gyeong", "ryeok", "mu", "gwan">>), text) \/ Contains(Hangul(<<"gyeong", "ryeok">>) \o Chars(" ") \o Hangul(<<"mu", "gwan">>), text) THEN ExperienceLevel.ANY
       ELSE IF Contains(Hangul(<<"sin", "ip">>), text) THEN ExperienceLevel.ENTRY
       ELSE ExperienceLevel.EXPERIENCED

\* _determine_experience_level of JobTalioCrawler.
jobtalio_determine_experience_level(experience_text) ==
    LET text == lower(experience_text)
    IN IF Contains(Hangul(<<"in", "teon">>), text) THEN ExperienceLevel.INTERN
       ELSE IF Contains(Hangul(<<"gyeong", "ryeok", "mu", "gwan">>), text) \/ Contains(Hangul(<<"mu", "gwan">>), text) THEN ExperienceLevel.ANY
       ELSE IF Contains(Hangul(<<"sin", "ip">>), text) THEN ExperienceLevel.ENTRY
       ELSE ExperienceLevel.ANY

\* _determine_experience_level of InthisworkCrawler.
inthiswork_determine_experience_level(experience_text) ==
    LET text == lower(experience_text)
    IN IF experience_text = <<>> THEN ExperienceLevel.ANY
       ELSE IF Contains(Hangul(<<"in", "teon">>), text) \/ Contains(Chars("intern"), text)
       THEN ExperienceLevel.INTERN
       ELSE IF Contains(Hangul(<<"gyeong", "ryeok", "mu", "gwan">>), text) \/ Contains(Hangul(<<"gyeong", "ryeok">>) \o Chars(" ") \o Hangul(<<"mu", "gwan">>), text) THEN ExperienceLevel.ANY
       ELSE IF \/ Contains(Hangul(<<"sin", "ip">>), text)
               \/ Contains(Chars("entry"), text)
               \/ Contains(Chars("junior"), text)
       THEN ExperienceLevel.ENTRY
       ELSE IF \/ Contains(Hangul(<<"gyeong", "ryeok">>), text)
               \/ Contains(Hangul(<<"si", "ni", "eo">>), text)
               \/ Contains(Chars("senior"), text)
       THEN ExperienceLevel.EXPERIENCED
       ELSE ExperienceLevel.ANY

\* The experience branch of _parse_job_item of JobKoreaCrawler, on the text
\* of the .option element; the text is not lower-cased.
jobkorea_experience_level(option_text) ==
    IF Contains(Hangul(<<"sin", "ip">>), option_text) THEN ExperienceLevel.ENTRY
    ELSE IF Contains(Hangul(<<"gyeong", "ryeok", "mu", "gwan">>), option_text) THEN ExperienceLevel.ANY
    ELSE IF Contains(Hangul(<<"in", "teon">>), option_text) THEN ExperienceLevel.INTERN
    ELSE ExperienceLevel.ANY

determine_experience_level(adapter, text) ==
    CASE adapter = "saramin" -> saramin_determine_experience_level(text)
      [] adapter = "jobtalio" -> jobtalio_determine_experience_level(text)
      [] adapter = "inthiswork" -> inthiswork_determine_experience_level(text)
      [] adapter = "jobkorea" -> jobkorea_experience_level(text)

\* The condition texts of listings, made of these words.
ConditionTexts ==
    LET words == {Hangul(<<"in", "teon">>) \o Chars(" "),
                  Hangul(<<"sin", "ip">>) \o Chars(" "),
                  Hangul(<<"gyeong", "ryeok", "mu", "gwan">>) \o Chars(" "),
                  Hangul(<<"gyeong", "ryeok">>) \o Chars(" ") \o Hangul(<<"mu", "gwan">>) \o Chars(" "),
                  Hangul(<<"gyeong", "ryeok">>) \o Chars(" 3") \o Hangul(<<"nyeon">>) \o Chars(" "),
                  Chars("Intern ")}
    IN {strip(Join(text)) : text \in SeqsUpTo(words, MaxConditionWords)}

InitLevel ==
    /\ AtRest
    /\ arg \in {[adapter |-> a, text |-> t] :
                    a \in {"saramin", "jobtalio", "inthiswork", "jobkorea"},
                    t \in ConditionTexts}
    /\ ret = None

DetermineExperienceLevel ==
    /\ op = "init"
    /\ ret' = Some(determine_experience_level(arg.adapter, arg.text))
    /\ op' = "experience_level"
    /\ UNCHANGED <<now, ticks, db, file, recorded, arg, issued, run>>

SpecLevel ==
    InitLevel /\ [][DetermineExperienceLevel]_vars

\* ------------------------------------------------------ _parse_deadline
\* A datetime, to the hour: <<year, month, day, hour>>, ordered as Python
\* orders datetimes.
IsLeap(year) == year % 4 = 0 /\ (year % 100 # 0 \/ year % 400 = 0)

DaysInMonth(year, month) ==
    IF month = 2 THEN (IF IsLeap(year) THEN 29 ELSE 28)
    ELSE IF month \in {4, 6, 9, 11} THEN 30
    ELSE 31

Earlier(a, b) ==
    \E k \in 1..4 : a[k] < b[k] /\ \A j \in 1..(k - 1) : a[j] = b[j]

\* What a call gives back: a value, or the exception it raises.
Returned(value) == [raised |-> "", value |-> value]

Raised(exception) == [raised |-> exception, value |-> None]

\* datetime(year, month, day): midnight of the day, ValueError when the
\* calendar has no such day.
datetime(year, month, day) ==
    IF month \in 1..12 /\ day \in 1..DaysInMonth(year, month)
    THEN Returned(<<year, month, day, 0>>)
    ELSE Raised("ValueError")

\* today + timedelta(days=days)
RECURSIVE PlusDays(_, _)
PlusDays(today, days) ==
    IF days = 0 THEN today
    ELSE LET next == IF today[3] < DaysInMonth(today[1], today[2])
                     THEN <<today[1], today[2], today[3] + 1, today[4]>>
                     ELSE IF today[2] < 12 THEN <<today[1], today[2] + 1, 1, today[4]>>
                     ELSE <<today[1] + 1, 1, 1, today[4]>>
         IN PlusDays(next, days - 1)

\* The branch shared by the parsers: the month and day of the match in the
\* year of today, or in the year after when that midnight is before today.
month_day_deadline(match, today) ==
    LET month == int(match.group[1])
        day == int(match.group[2])
        year == today[1]
        deadline == datetime(year, month, day)
    IN IF deadline.raised # "" THEN deadline
       ELSE IF Earlier(deadline.value, today) THEN datetime(year + 1, month, day)
       ELSE deadline

year_month_day_deadline(match) ==
    datetime(int(match.group[1]), int(match.group[2]), int(match.group[3]))

DaysLeft(D) == <<Lit(D), Lit({"-"}), OneOrMoreDigits>>

YearMonthDay(sep) ==
    <<DigitGroup(4, 4), Lit(sep), DigitGroup(1, 2), Lit(sep), DigitGroup(1, 2)>>

MonthDay(sep) == <<DigitGroup(1, 2), Lit(sep), DigitGroup(1, 2)>>

TildeMonthDay(sep) == <<Lit({"~"}), Spaces>> \o MonthDay(sep)

saramin_parse_deadline(text, today) ==
    IF text = <<>> THEN Returned(None)
    ELSE IF re_search(DaysLeft({"D"}), text) # None
    THEN Returned(PlusDays(today, int(re_search(DaysLeft({"D"}), text)[1].group[1])))
    ELSE IF re_search(TildeMonthDay({"/"}), text) # None
    THEN month_day_deadline(re_search(TildeMonthDay({"/"}), text)[1], today)
    ELSE IF re_search(TildeMonthDay({"."}), text) # None
    THEN month_day_deadline(re_search(TildeMonthDay({"."}), text)[1], today)
    ELSE Returned(None)

jobtalio_parse_deadline(text, today) ==
    IF text = <<>> THEN Returned(None)
    ELSE IF re_search(YearMonthDay({"."}), text) # None
    THEN year_month_day_deadline(re_search(YearMonthDay({"."}), text)[1])
    ELSE IF re_search(YearMonthDay({"-"}), text) # None
    THEN year_month_day_deadline(re_search(YearMonthDay({"-"}), text)[1])
    ELSE IF re_search(MonthDay({"/"}), text) # None
    THEN month_day_deadline(re_search(MonthDay({"/"}), text)[1], today)
    ELSE Returned(None)

inthiswork_parse_deadline(text, today) ==
    IF text = <<>> THEN Returned(None)
    ELSE IF re_search(DaysLeft({"D", "d"}), text) # None
    THEN Returned(PlusDays(today, int(re_search(DaysLeft({"D", "d"}), text)[1].group[1])))
    ELSE IF re_search(YearMonthDay({"-"}), text) # None
    THEN year_month_day_deadline(re_search(YearMonthDay({"-"}), text)[1])
    ELSE IF re_search(YearMonthDay({"."}), text) # None
    THEN year_month_day_deadline(re_search(YearMonthDay({"."}), text)[1])
    ELSE IF re_search(MonthDay({"/", "."}), text) # None
    THEN month_day_deadline(re_search(MonthDay({"/", "."}), text)[1], today)
    ELSE Returned(None)

parse_deadline(adapter, text, today) ==
    CASE adapter = "saramin" -> saramin_parse_deadline(text, today)
      [] adapter = "jobtalio" -> jobtalio_parse_deadline(text, today)
      [] adapter = "inthiswork" -> inthiswork_parse_deadline(text, today)

\* Deadline texts of listings, by the way they are written.
Decimal(n, width) ==
    [k \in 1..width |-> Chars("0123456789")[((n \div (10 ^ (width - k))) % 10) + 1]]

MonthDayStyles == {"MM/DD", "MM.DD", "~MM/DD", "~ MM.DD"}

DeadlineText(style, year, month, day) ==
    CASE style = "MM/DD" -> Decimal(month, 2) \o Chars("/") \o Decimal(day, 2)
      [] style = "MM.DD" -> Decimal(month, 2) \o Chars(".") \o Decimal(day, 2)
      [] style = "~MM/DD" -> Chars("~") \o Decimal(month, 2) \o Chars("/") \o Decimal(day, 2)
      [] style = "~ MM.DD" -> Chars("~ ") \o Decimal(month, 2) \o Chars(".") \o Decimal(day, 2)
      [] style = "D-N" -> Chars("D-") \o Decimal(day, 2)
      [] style = "YYYY-MM-DD" ->
            Decimal(year, 4) \o Chars("-") \o Decimal(month, 2) \o Chars("-") \o Decimal(day, 2)
      [] style = "YYYY.MM.DD" ->
            Decimal(year, 4) \o Chars(".") \o Decimal(month, 2) \o Chars(".") \o Decimal(day, 2)
      [] style = "" -> <<>>

\* The days deadlines fall on and the clock is read at.
MonthDays == {<<1, 1>>, <<2, 28>>, <<2, 29>>, <<3, 1>>, <<3, 15>>, <<12, 31>>}

\* The times the clock is read at, from 2023 on (2024 is a leap year).
Nows ==
    LET years == 2023..(2023 + MaxYears - 1)
    IN {<<y, md[1], md[2], h>> : y \in years, md \in MonthDays, h \in {0, 9}}
           \cap {t \in years \X (1..12) \X (1..31) \X {0, 9} : t[3] <= DaysInMonth(t[1], t[2])}

DeadlineCalls ==
    {[adapter |-> a, today |-> t, style |-> s, month |-> md[1], day |-> md[2],
      text |-> DeadlineText(s, t[1], md[1], md[2])] :
        a \in {"saramin", "jobtalio", "inthiswork"},
        t \in Nows,
        s \in MonthDayStyles \cup {"D-N", "YYYY-MM-DD", "YYYY.MM.DD", ""},
        md \in MonthDays}

InitDeadline ==
    /\ AtRest
    /\ arg \in DeadlineCalls
    /\ ret = None

ParseDeadline ==
    /\ op = "init"
    /\ ret' = parse_deadline(arg.adapter, arg.text, arg.today)
    /\ op' = "parse_deadline"
    /\ UNCHANGED <<now, ticks, db, file, recorded, arg, issued, run>>

SpecDeadline ==
    InitDeadline /\ [][ParseDeadline]_vars

\* ------------------------------------------------ save_jobs, column by column
\* The postings of the two identities as an adapter builds them at time t,
\* each as the listing shows it on one day and on another: the title, the
\* company name, the deadline and the link differ, the source and the
\* source_id do not.
ListedJobs(t) ==
    {[id |-> i,
      title |-> IF again THEN "Data Analyst Intern" ELSE "Data Analyst",
      company_name |-> IF again THEN "ACME Corp." ELSE "ACME",
      deadline |-> IF again THEN Some(1) ELSE None,
      deadline_text |-> IF again THEN "~01/01" ELSE "",
      source |-> "saramin",
      source_id |-> IF i = "af4a0e331bf7" THEN "48213377" ELSE "48213378",
      source_url |-> IF again THEN "https://www.saramin.co.kr/zf_user/jobs/relay/view"
                     ELSE "/zf_user/jobs/relay/view",
      crawled_at |-> t,
      updated_at |-> None,
      is_active |-> TRUE,
      is_new |-> TRUE] : i \in Ids, again \in BOOLEAN}

\* A faulty update: the row is rebuilt from the posting, as an insert would.
UpdateColumns_Rebuilding(existing, job, t) ==
    [job EXCEPT !.updated_at = Some(t), !.is_new = FALSE]

\* save_jobs, the branch for an id the session already holds, column by
\* column.
UpdateColumns(existing, job, t) ==
    [existing EXCEPT !.title = job.title,
                     !.company_name = job.company_name,
                     !.deadline = job.deadline,
                     !.deadline_text = job.deadline_text,
                     !.updated_at = Some(t),
                     !.is_new = FALSE]

\* The loop of save_jobs over rows with these columns; _to_job_table copies
\* every column of the posting.
RECURSIVE save_jobs_columns(_, _, _)
save_jobs_columns(rows, jobs, t) ==
    IF jobs = <<>> THEN rows
    ELSE LET job == Head(jobs)
             merged == IF job.id \in DOMAIN rows
                       THEN [rows EXCEPT ![job.id] = UpdateColumns(@, job, t)]
                       ELSE rows @@ (job.id :> [job EXCEPT !.is_new = TRUE])
         IN save_jobs_columns(merged, Tail(jobs), t)

\* save_jobs with one posting.
SaveJobsColumns(job) ==
    /\ db' = save_jobs_columns(db, <<job>>, now)
    /\ arg' = Some(job)
    /\ op' = "save_jobs"
    /\ UNCHANGED <<now, ticks, file, recorded, ret, issued, run>>

SpecStoreColumns ==
    Init /\ [][\/ Tick(1)
               \/ \E job \in ListedJobs(now) : SaveJobsColumns(job)
               \/ MarkExpiredJobs]_vars

\* ------------------------------------------------- crawl(), keyword by keyword
\* BaseCrawler.fetch against a site that answers each url as `responses` says:
\* the body on status 200, None on any other status and on an exception of
\* the transport.
fetch(responses, url) ==
    LET response == responses[url]
    IN IF ~response.raised /\ response.status = 200 THEN Some(response.text) ELSE None

\* A faulty search: a request that failed is issued once more.
search_jobs_Retrying(adapter, responses, keyword) ==
    IF adapter = "saramin"
    THEN LET url == "/zf_user/search/recruit?searchword=" \o keyword
             html == fetch(responses, url)
         IN [requests |-> IF html = None THEN <<url, url>> ELSE <<url>>,
             jobs |-> OrEmpty(html)]
    ELSE LET search_url == "/esroom/servlet/sbsrc/list?searchWord=" \o keyword
             alt_url == "/jobList/jobListSearch.do?searchWord=" \o keyword
             first == fetch(responses, search_url)
         IN IF Falsy(first)
            THEN [requests |-> <<search_url, search_url, alt_url>>,
                  jobs |-> OrEmpty(fetch(responses, alt_url))]
            ELSE [requests |-> <<search_url>>, jobs |-> first[1]]

\* _search_jobs of SaraminCrawler and of JobTalioCrawler: the requests it
\* issues, in order, and the postings it returns.  A body is written as the
\* postings _parse_job_list reads from it, the empty body as <<>>; JobTalio
\* asks a second address when the first gave it nothing.
search_jobs(adapter, responses, keyword) ==
    IF adapter = "saramin"
    THEN LET url == "/zf_user/search/recruit?searchword=" \o keyword
             html == fetch(responses, url)
         IN [requests |-> <<url>>, jobs |-> OrEmpty(html)]
    ELSE LET search_url == "/esroom/servlet/sbsrc/list?searchWord=" \o keyword
             alt_url == "/jobList/jobListSearch.do?searchWord=" \o keyword
             first == fetch(responses, search_url)
         IN IF Falsy(first)
            THEN [requests |-> <<search_url, alt_url>>,
                  jobs |-> OrEmpty(fetch(responses, alt_url))]
            ELSE [requests |-> <<search_url>>, jobs |-> first[1]]

\* SEARCH_KEYWORDS of SaraminCrawler and of JobTalioCrawler.
SEARCH_KEYWORDS(adapter) ==
    IF adapter = "saramin"
    THEN <<"<de><i><teo> <bun><seok>", "Data Analyst",
           "<de><i><teo> <sa><i><eon><ti><seu><teu>">>
    ELSE <<"<de><i><teo>", "<bun><seok>", "<big><de><i><teo>">>

\* crawl() of the two adapters: one search per keyword, then the
\* deduplication loop.
crawl(adapter, responses) ==
    LET searched == [k \in DOMAIN SEARCH_KEYWORDS(adapter) |->
                        search_jobs(adapter, responses, SEARCH_KEYWORDS(adapter)[k])]
        all_jobs == searched[1].jobs \o searched[2].jobs \o searched[3].jobs
    IN [requests |-> searched[1].requests \o searched[2].requests \o searched[3].requests,
        jobs |-> UniqueJobs(all_jobs, {})]

\* What the sites may answer to each address: the transport fails, the server
\* refuses, or a result page comes back, empty or with postings.  The two
\* pages show the same two postings under different titles, one of which the
\* filter turns down.  JobSource has no member for JobTalio, so the id of its
\* postings is left open.
InitFetch ==
    LET Parsed(adapter, source_id, title) ==
            IF adapter = "saramin"
            THEN CrawledPosting("saramin", Chars(source_id), Chars(title), <<>>)
            ELSE [CrawledPosting("saramin", Chars(source_id), Chars(title), <<>>)
                     EXCEPT !.id = None]
        pages(adapter) ==
            {<<>>,
             <<Parsed(adapter, "48213377", "Data Analyst"),
               Parsed(adapter, "48213378", "Senior Data Analyst")>>,
             <<Parsed(adapter, "48213378", "Data Analyst"),
               Parsed(adapter, "48213377", "Data Analyst Intern")>>}
        answers(adapter) ==
            {[raised |-> TRUE, status |-> 0, text |-> <<>>],
             [raised |-> FALSE, status |-> 500, text |-> <<>>]}
            \cup {[raised |-> FALSE, status |-> 200, text |-> page] : page \in pages(adapter)}
        paths(adapter) ==
            IF adapter = "saramin" THEN {"/zf_user/search/recruit?searchword="}
            ELSE {"/esroom/servlet/sbsrc/list?searchWord=", "/jobList/jobListSearch.do?searchWord="}
        urls(adapter) ==
            {path \o SEARCH_KEYWORDS(adapter)[k] :
                path \in paths(adapter), k \in DOMAIN SEARCH_KEYWORDS(adapter)}
    IN /\ AtRest
       /\ ret = None
       /\ \E adapter \in {"saramin", "jobtalio"} :
             \E responses \in [urls(adapter) -> answers(adapter)] :
                arg = [adapter |-> adapter, responses |-> responses]

\* crawl() of the adapter, against the site as it answers.
CrawlKeywords ==
    /\ op = "init"
    /\ ret' = Some(crawl(arg.adapter, arg.responses))
    /\ op' = "crawl"
    /\ UNCHANGED <<now, ticks, db, file, recorded, arg, issued, run>>

SpecFetch == InitFetch /\ [][CrawlKeywords]_vars

\* --------------------------------------------------------- expiring_7days
\* One export of a batch whose deadlines lie around the ends of the week that
\* starts at the time of the run: an hour before it and at it, at the end of
\* the seventh day and an hour after, at the end of the eighth day and an
\* hour before.
InitStats ==
    LET deadlines == {None} \cup {Some(t) : t \in {-1, 0, 168, 169, 191, 192}}
    IN /\ AtRest
       /\ ret = None
       /\ arg \in SeqsUpTo({JobPosting(i, d) : i \in Ids, d \in deadlines}, MaxBatch)

SpecStats == InitStats /\ [][ExportJobs(arg)]_vars

\* ------------------------------------------------- the queries of the store
\* The ids of the rows each query returns.
get_all_jobs(rows) == {i \in DOMAIN rows : rows[i].is_active = TRUE}

get_jobs_by_source(rows, source) ==
    {i \in DOMAIN rows : rows[i].source = source /\ rows[i].is_active = TRUE}

get_new_jobs(rows) ==
    {i \in DOMAIN rows : rows[i].is_new = TRUE /\ rows[i].is_active = TRUE}

\* get_statistics: the total, the new and the expiring counts at time t.
get_statistics(rows, t) ==
    LET deadline_threshold == t + 7 * 24
    IN [total |-> Cardinality({i \in DOMAIN rows : rows[i].is_active = TRUE}),
        new |-> Cardinality({i \in DOMAIN rows :
                                rows[i].is_new = TRUE /\ rows[i].is_active = TRUE}),
        expiring_7days |->
            Cardinality({i \in DOMAIN rows :
                            /\ rows[i].deadline # None
                            /\ rows[i].deadline[1] <= deadline_threshold
                            /\ rows[i].deadline[1] >= t
                            /\ rows[i].is_active = TRUE})]

\* ------------------------------------------------ export_jobs, overlapping
\* Two runs of export_jobs on one snapshot file.  Nothing in export_jobs
\* holds the file between its load and its write, so a run is two steps: it
\* loads the prior file, and later it writes what it merged into what it
\* loaded.  Each run keeps its batch, the file as it read it, and whether the
\* other run had loaded and not yet written when this one wrote.
InitOverlap ==
    /\ AtRest
    /\ ret = None
    /\ arg = [p \in {1, 2} |-> [pc |-> "idle", jobs |-> <<>>, read |-> file,
                                overlapped |-> FALSE]]

\* Lines 26-34: the run loads the prior file.
ReadPrior(p, jobs) ==
    /\ arg[p].pc # "loaded"
    /\ arg' = [arg EXCEPT ![p] = [pc |-> "loaded", jobs |-> jobs, read |-> file,
                                  overlapped |-> FALSE]]
    /\ op' = "load"
    /\ UNCHANGED <<now, ticks, db, file, recorded, ret, issued, run>>

\* Lines 36-97: the run merges its batch into what it loaded and writes.
WriteSnapshot(p) ==
    /\ arg[p].pc = "loaded"
    /\ file' = export_jobs(arg[p].read, arg[p].jobs, now)
    /\ arg' = [arg EXCEPT ![p] = [@ EXCEPT !.pc = "written",
                                           !.overlapped = (arg[3 - p].pc = "loaded")]]
    /\ op' = "export_jobs"
    /\ UNCHANGED <<now, ticks, db, recorded, ret, issued, run>>

SpecOverlap ==
    InitOverlap /\ [][\E p \in {1, 2} : \/ \E jobs \in SeqsUpTo(Postings, 1) : ReadPrior(p, jobs)
                                        \/ WriteSnapshot(p)]_vars

\* ------------------------------------------------ export_jobs, damaged file
\* Between two runs the snapshot file is damaged: it is still there, and what
\* it held is text that json.load cannot parse.
DamageFile ==
    /\ file.exists
    /\ "jobs" \in DOMAIN file
    /\ file' = [exists |-> TRUE, text |-> file.jobs]
    /\ op' = "damage"
    /\ UNCHANGED <<now, ticks, db, recorded>>
    /\ UNCHANGED callVars

SpecDamaged ==
    Init /\ [][\/ \E d \in TickSteps : Tick(d)
               \/ \E jobs \in Batches : ExportJobs(jobs)
               \/ DamageFile]_vars

\* -------------------------------------------------------------- claims
\* Helpers of the claims' statements.
Occurs(jobs, i) == \E k \in 1..Len(jobs) : jobs[k].id = i

BatchIds(jobs) == {jobs[k].id : k \in 1..Len(jobs)}

AgeWithinWindow(entry, t) == (t - fromisoformat(entry.first_seen_at)) <= new_threshold_hours

\* C1: given the same batches at the same times, the store (save_jobs then
\* mark_expired_jobs) and the snapshot (export_jobs) give the same is_new to
\* every id both hold, and the ids active in the store are exactly the ids of
\* the snapshot's jobs array.
C1_SinksAgree ==
    /\ \A i \in DOMAIN db \cap DOMAIN file.jobs : db[i].is_new = file.jobs[i].is_new
    /\ {i \in DOMAIN db : db[i].is_active} = DOMAIN file.jobs

\* C2: a second save_jobs with the same batch, right after the first, leaves
\* the store with the same ids and the same is_new for every id.
SameReconciledRows(rows1, rows2) ==
    /\ DOMAIN rows1 = DOMAIN rows2
    /\ \A i \in DOMAIN rows1 : rows1[i].is_new = rows2[i].is_new

C2_SaveJobsTwice ==
    [][\A jobs \in Batches :
          SaveJobs(jobs) => SameReconciledRows(db', save_jobs(db', jobs))]_vars

\* C3: a second export_jobs with the same batch, right after the first and
\* reading the first one's file, writes a snapshot with the same ids, the same
\* first_seen_at and the same is_new for every id.
SameLedger(jobs1, jobs2) ==
    /\ DOMAIN jobs1 = DOMAIN jobs2
    /\ \A i \in DOMAIN jobs1 :
          /\ jobs1[i].first_seen_at = jobs2[i].first_seen_at
          /\ jobs1[i].is_new = jobs2[i].is_new

C3_ExportJobsTwice ==
    \A jobs \in Batches :
        LET first == export_jobs(file, jobs, now)
            second == export_jobs(first, jobs, now)
        IN SameLedger(first.jobs, second.jobs)

\* A snapshot just written by export_jobs that holds a re-sighted posting past
\* its freshness window beside one first seen in this run, and that a second
\* export of a batch naming both leaves as it is.
C3_Witness ==
    /\ op = "export_jobs"
    /\ \E i, j \in DOMAIN file.jobs :
          /\ ~file.jobs[i].is_new
          /\ fromisoformat(file.jobs[i].first_seen_at) < now
          /\ file.jobs[j].is_new
          /\ fromisoformat(file.jobs[j].first_seen_at) = now
          /\ \E jobs \in Batches :
                /\ BatchIds(jobs) = {i, j}
                /\ export_jobs(file, jobs, now) = file

\* C4: in a snapshot written by export_jobs at time now, every posting of the
\* jobs array, in the batch or not, has is_new exactly when
\* now - first_seen_at <= 48 hours.
C4_IsNewByAgeForAll ==
    op = "export_jobs" =>
        \A i \in DOMAIN file.jobs :
            file.jobs[i].is_new = AgeWithinWindow(file.jobs[i], now)

\* C5: a row stored with is_active = false that a later run supplies again
\* with a deadline after now has is_active = true after that run.
SuppliedWithFutureDeadline(jobs, i, t) ==
    /\ Occurs(jobs, i)
    /\ \A k \in 1..Len(jobs) :
          jobs[k].id = i => (jobs[k].deadline # None /\ jobs[k].deadline[1] > t)

C5_ReactivatedByFutureDeadline ==
    [][\A jobs \in Batches :
          RunCrawlers(jobs) =>
              \A i \in DOMAIN db :
                  (~db[i].is_active /\ SuppliedWithFutureDeadline(jobs, i, now))
                      => db'[i].is_active]_vars

\* C6: after a run_crawlers run at time now, every row whose deadline is
\* non-null and strictly before now has is_active = false, and a row whose
\* deadline is null or not before now is inactive only if it already was
\* before the run.
DeadlinePassed(row, t) == row.deadline # None /\ row.deadline[1] < t

C6_ExpiredMarkedByRun ==
    [][op' = "run_crawlers" =>
          \A i \in DOMAIN db' :
              /\ DeadlinePassed(db'[i], now') => ~db'[i].is_active
              /\ (~DeadlinePassed(db'[i], now') /\ ~db'[i].is_active)
                    => (i \in DOMAIN db /\ ~db[i].is_active)]_vars

\* After a run: one row made inactive, one row with a deadline equal to the
\* clock left active.
C6_Witness ==
    /\ op = "run_crawlers"
    /\ \E i, j \in DOMAIN db :
          /\ DeadlinePassed(db[i], now) /\ ~db[i].is_active
          /\ db[j].deadline = Some(now) /\ db[j].is_active

\* C7: a row whose is_active is false is not set back to true by a run that
\* re-reports its id with a null or past deadline, nor by mark_as_read, nor by
\* mark_expired_jobs.  (After save_jobs the row's deadline is the one last
\* reported for its id.)
C7_InactiveStaysInactive ==
    [][\A i \in DOMAIN db :
          (/\ ~db[i].is_active
           /\ \/ op' \in {"mark_as_read", "mark_expired_jobs"}
              \/ /\ op' \in {"save_jobs", "run_crawlers"}
                 /\ i \in DOMAIN db'
                 /\ (db'[i].deadline = None \/ DeadlinePassed(db'[i], now')))
          => (i \in DOMAIN db' /\ ~db'[i].is_active)]_vars

\* An inactive row without a deadline: it expired, and was then re-reported
\* with a null deadline.
C7_Witness ==
    /\ op \in {"save_jobs", "run_crawlers"}
    /\ \E i \in DOMAIN db : ~db[i].is_active /\ db[i].deadline = None

\* C8 as stated: once an id has been recorded with a first_seen_at, every
\* later snapshot that holds the id records that first_seen_at.
C8_FirstSeenNeverChanges ==
    \A i \in DOMAIN file.jobs : file.jobs[i].first_seen_at = recorded[i]

\* C8 as amended: an id held by the snapshot a run reads and by the snapshot
\* that run writes has the same first_seen_at in both.
C8_FirstSeenKeptWhileListed ==
    [][\A i \in DOMAIN file.jobs \cap DOMAIN file'.jobs :
          file'.jobs[i].first_seen_at = file.jobs[i].first_seen_at]_vars

\* A posting re-sighted past its freshness window, its first_seen_at still the
\* one first recorded.
C8_Witness ==
    /\ op = "export_jobs"
    /\ \E i \in DOMAIN file.jobs :
          /\ ~file.jobs[i].is_new
          /\ fromisoformat(file.jobs[i].first_seen_at) + new_threshold_hours < now
          /\ file.jobs[i].first_seen_at = recorded[i]

\* C9: no operation of the store removes a row, and mark_expired_jobs leaves
\* every expired row stored, with is_active = false.
C9_RowsNeverRemoved ==
    [][/\ DOMAIN db \subseteq DOMAIN db'
       /\ op' = "mark_expired_jobs" =>
              \A i \in DOMAIN db :
                  DeadlinePassed(db[i], now) =>
                      (i \in DOMAIN db' /\ ~db'[i].is_active)]_vars

\* mark_expired_jobs has run and an expired row is still stored, inactive,
\* beside an active one.
C9_Witness ==
    /\ op = "mark_expired_jobs"
    /\ \E i, j \in DOMAIN db :
          /\ DeadlinePassed(db[i], now) /\ ~db[i].is_active
          /\ db[j].is_active

\* C10: the snapshot export_jobs writes at time now holds no posting whose
\* deadline is non-null and strictly before now, and holds every posting of
\* the merged ledger (prior snapshot plus batch) whose deadline is null or not
\* before now.
LastIndex(jobs, i) ==
    CHOOSE k \in 1..Len(jobs) :
        jobs[k].id = i /\ \A l \in (k + 1)..Len(jobs) : jobs[l].id # i

\* The deadline the merged ledger holds for id i: the one of the batch's last
\* posting of i, or else the prior snapshot's.
MergedDeadline(prior, jobs, i) ==
    IF Occurs(jobs, i)
    THEN (IF jobs[LastIndex(jobs, i)].deadline = None THEN None
          ELSE isoformat(jobs[LastIndex(jobs, i)].deadline[1]))
    ELSE prior[i].deadline

DeadlineBefore(deadline, t) == deadline # None /\ fromisoformat(deadline) < t

C10_SnapshotIsTheUnexpired ==
    \A jobs \in Batches :
        LET prior == LoadExisting(file)
            written == export_jobs(file, jobs, now).jobs
        IN /\ \A i \in DOMAIN written : ~DeadlineBefore(written[i].deadline, now)
           /\ \A i \in DOMAIN prior \cup BatchIds(jobs) :
                 ~DeadlineBefore(MergedDeadline(prior, jobs, i), now)
                     => (/\ i \in DOMAIN written
                         /\ written[i].deadline = MergedDeadline(prior, jobs, i))

\* A snapshot, written by an earlier export, in which one posting's deadline
\* has passed since and another's equals the clock: the next export has to
\* drop the first and keep the second.
C10_Witness ==
    /\ file.exists
    /\ \E i, j \in DOMAIN file.jobs :
          /\ DeadlineBefore(file.jobs[i].deadline, now)
          /\ file.jobs[j].deadline = isoformat(now)

\* C11: generate_id gives a (source, source_id) pair the same id every time
\* it is computed, and after any sequence of runs neither the store nor the
\* snapshot holds two entries for one (source, source_id) pair, also when a
\* batch listed the pair more than once.
IdsIssuedTo(source, source_id) ==
    {x[3] : x \in {y \in issued : y[1] = source /\ y[2] = source_id}}

C11_OneEntryPerPair ==
    \A p \in ListedPairs :
        /\ IdsIssuedTo(p[1], p[2]) \subseteq {generate_id(p[1], p[2])}
        /\ Cardinality(DOMAIN db \cap IdsIssuedTo(p[1], p[2])) <= 1
        /\ Cardinality(DOMAIN file.jobs \cap IdsIssuedTo(p[1], p[2])) <= 1

\* Only one pair has ever been listed, the last run collected it twice, and
\* each sink holds the one entry of that pair.
C11_Witness ==
    /\ op \in {"run_crawlers", "crawl_to_json"}
    /\ ret.collected = 2
    /\ Cardinality(issued) = 1
    /\ \E p \in ListedPairs :
          /\ DOMAIN db = {generate_id(p[1], p[2])}
          /\ DOMAIN file.jobs = {generate_id(p[1], p[2])}

\* C12: for two consecutive export_jobs runs, the second reading the file
\* the first wrote, the second snapshot's stats.total is the number of
\* distinct ids of the two batches whose latest reported deadline is null or
\* not before the second run's now.
LatestOf(first, second, i) ==
    IF i \in DOMAIN second.reported THEN second.reported[i]
    ELSE IF i \in DOMAIN first.reported THEN first.reported[i]
    ELSE first.ledger[i]

Unexpired(first, second, ids, t) ==
    {i \in ids : LET deadline == LatestOf(first, second, i)
                 IN deadline = None \/ deadline[1] >= t}

SecondOfTwoRuns == op' = "export_jobs" /\ arg # None

C12_TotalCountsBothBatches ==
    [][SecondOfTwoRuns =>
         file'.stats.total =
             Cardinality(Unexpired(arg, arg', DOMAIN arg.reported \cup DOMAIN arg'.reported,
                                   now'))]_vars

\* C12, amended: the ids counted are those of the two batches and of the
\* ledger the first run read.
C12_TotalCountsLedgerAndBatches ==
    [][SecondOfTwoRuns =>
         file'.stats.total =
             Cardinality(Unexpired(arg, arg',
                                   DOMAIN arg.ledger \cup DOMAIN arg.reported
                                       \cup DOMAIN arg'.reported,
                                   now'))]_vars

\* A second run has read the file of the first, dropped an entry whose
\* deadline had passed and written the posting its own batch reported.
C12_Witness ==
    /\ op = "export_jobs"
    /\ ret.read_prior
    /\ ret.total = 1
    /\ DOMAIN arg.reported = DOMAIN file.jobs
    /\ \E i \in DOMAIN arg.ledger :
          /\ i \notin DOMAIN file.jobs
          /\ i \notin DOMAIN arg.reported

\* C13: when save_jobs fails while it processes a posting of its batch, the
\* store afterwards is the store before the call, the session is closed and
\* the error reaches the caller.
C13_FailedSaveChangesNothing ==
    [][(op' = "save_jobs" /\ arg'.fail_at # 0) =>
          /\ db' = db
          /\ ret'.session = "closed"
          /\ ret'.raised]_vars

\* A call failed on its second posting, after the first had been flushed
\* into a store that holds a row already; another call went through.
C13_Witness ==
    /\ op = "save_jobs"
    /\ arg.fail_at = 2
    /\ ret.raised
    /\ Cardinality(DOMAIN db) = 1

\* C14: in run_crawlers and in crawl-to-json, whatever an adapter raises
\* (on construction, in crawl() or on teardown), the adapters after it in
\* CRAWLERS still have their turn, each once and in list order, and the
\* postings of every crawl() that returned are in the batch handed to the
\* sink; an exception of get_job_detail removes no posting from the batch
\* and stops no later adapter.
ReturnedJobs(outcome) ==
    IF outcome.raises \in {"enter", "crawl"} THEN <<>> ELSE outcome.jobs

C14_AdaptersIsolated ==
    [][/\ op' = "turn" =>
            /\ ret'.crawler = CRAWLERS[run[1].next]
            /\ run' # None
            /\ run'[1].next = run[1].next + 1
            /\ run'[1].total_jobs = run[1].total_jobs \o ReturnedJobs(arg')
       /\ op' = "finish" =>
            /\ run[1].next = Len(CRAWLERS) + 1
            /\ ret'.total_jobs = run[1].total_jobs
            /\ run[1].sink = "database" => db' = run_crawlers(db, run[1].total_jobs, now)
            /\ run[1].sink = "json" => file' = crawl_to_json(file, run[1].total_jobs, now)]_vars

\* The last adapter of the list has had its turn after earlier ones raised:
\* its session failed on teardown once crawl() had returned a posting for
\* which get_job_detail raised, and that posting is in total_jobs.
C14_Witness ==
    /\ op = "turn"
    /\ ret.crawler = CRAWLERS[Len(CRAWLERS)]
    /\ arg.raises = "exit"
    /\ arg.detail_raises
    /\ Len(run[1].total_jobs) = 2
    /\ run[1].total_jobs[2] = arg.jobs[1]

\* Helpers of the filter claims: a keyword occurs in a text when the text
\* has a stretch of the keyword's length that spells it, letter for letter,
\* whatever the case of the letters.
SameLetter(a, b) ==
    \/ a = b
    \/ a \in DOMAIN LowerOf /\ LowerOf[a] = b
    \/ b \in DOMAIN LowerOf /\ LowerOf[b] = a

OccursIn(keyword, text) ==
    \E i \in 0..(Len(text) - Len(keyword)) :
        \A j \in 1..Len(keyword) : SameLetter(keyword[j], text[i + j])

AnyOccursIn(keywords, text) == \E keyword \in keywords : OccursIn(keyword, text)

TextOf(x) == IF x = None THEN <<>> ELSE x[1]

\* The acceptance rule for a posting that is not excluded.
Accepts(job) ==
    /\ AnyOccursIn(job_keywords, job.title \o <<" ">> \o TextOf(job.description))
    /\ \/ TextOf(job.experience_text) = <<>>
       \/ AnyOccursIn(experience_keywords, TextOf(job.experience_text))

\* C15: matches_filter rejects every posting whose title contains an exclude
\* keyword in any case, whatever its description and experience_text and
\* whatever keywords it matches; an exclude keyword outside the title
\* (in the description or in experience_text) does not decide anything.
C15_ExcludedTitleRejected ==
    ret # None =>
        /\ AnyOccursIn(exclude_keywords, arg.title) => ret[1] = FALSE
        /\ (/\ ~AnyOccursIn(exclude_keywords, arg.title)
            /\ \/ AnyOccursIn(exclude_keywords, TextOf(arg.description))
               \/ AnyOccursIn(exclude_keywords, TextOf(arg.experience_text)))
           => ret[1] = Accepts(arg)

\* A posting that the other two stages accept was rejected for an exclude
\* keyword that its title spells in another case.
C15_Witness ==
    /\ ret = Some(FALSE)
    /\ Accepts(arg)
    /\ \E keyword \in exclude_keywords :
          /\ OccursIn(keyword, arg.title)
          /\ ~Contains(keyword, arg.title)
    /\ \A keyword \in exclude_keywords : ~Contains(keyword, arg.title)

\* C16: for a posting whose title contains no exclude keyword,
\* matches_filter returns true exactly when a job keyword occurs, in any
\* case, in title + " " + description and experience_text is empty or
\* contains an experience keyword in any case; a non-empty experience_text
\* without any experience keyword rejects the posting.
C16_AcceptedExactlyWhenMatching ==
    (ret # None /\ ~AnyOccursIn(exclude_keywords, arg.title)) => ret[1] = Accepts(arg)

\* A posting without experience_text was accepted for a job keyword that
\* neither its title nor its description contains on its own.
C16_Witness ==
    /\ ret = Some(TRUE)
    /\ Falsy(arg.experience_text)
    /\ ~AnyOccursIn(job_keywords, arg.title)
    /\ ~AnyOccursIn(job_keywords, TextOf(arg.description))

\* C17: for every adapter, the list crawl() returns holds no two postings
\* with the same source_id, and of the extracted items that share a
\* source_id only the first one extracted can be in the list.
Extracted(input) ==
    IF input.adapter = "saramin"
    THEN [k \in 1..Len(input.items) |-> Some(saramin_parse_job_card(input.items[k]))]
    ELSE [k \in 1..Len(input.items) |->
            IF Contains(FullwidthBar, input.items[k].text)
            THEN inthiswork_parse_job_from_link(inthiswork_base_href(input.items[k].href),
                                                input.items[k].text)
            ELSE None]

FirstWithSourceId(extracted, source_id) ==
    Least({k \in 1..Len(extracted) :
              extracted[k] # None /\ extracted[k][1].source_id = source_id})

C17_OnePostingPerSourceId ==
    ret # None =>
        /\ \A k, l \in 1..Len(ret[1]) : ret[1][k].source_id = ret[1][l].source_id => k = l
        /\ \A k \in 1..Len(ret[1]) :
              ret[1][k].title =
                  Extracted(arg)[FirstWithSourceId(Extracted(arg), ret[1][k].source_id)][1].title

\* C18: within one crawl(), two distinct listing items from which no
\* site-native id can be extracted (their source_id is empty) are not
\* collapsed into one posting by the deduplication of the batch, and do not
\* receive the same id.
UnknownIdItems(input) ==
    {k \in 1..Len(input.items) :
        /\ Extracted(input)[k] # None
        /\ Extracted(input)[k][1].source_id = <<>>
        /\ matches_filter(Extracted(input)[k][1])}

C18_UnknownIdsKeptApart ==
    ret # None =>
        \A k, l \in UnknownIdItems(arg) :
            arg.items[k] # arg.items[l] =>
                /\ Extracted(arg)[k][1].id # Extracted(arg)[l][1].id
                /\ Cardinality({m \in 1..Len(ret[1]) : ret[1][m].source_id = <<>>}) >= 2

\* C19: every adapter that derives experience_level from text applies one
\* priority, first match wins: a text with the intern keyword gives INTERN
\* even when it also holds an Any or Entry keyword; otherwise a text with the
\* Any keyword gives ANY even when the Entry keyword is present; otherwise a
\* text with the Entry keyword gives ENTRY; otherwise the adapter's default.
InternKeyword == Hangul(<<"in", "teon">>)

AnyKeyword == Hangul(<<"gyeong", "ryeok", "mu", "gwan">>)

EntryKeyword == Hangul(<<"sin", "ip">>)

AdapterDefault(adapter) ==
    IF adapter \in {"saramin", "rocketpunch"} THEN ExperienceLevel.EXPERIENCED
    ELSE ExperienceLevel.ANY

AnyLevel == {ExperienceLevel[l] : l \in DOMAIN ExperienceLevel}

\* The level the priority prescribes.  Where a text holds a word that only
\* some adapters read as a keyword ("intern", "mu gwan" apart from the Any keyword,
\* "gyeong ryeok" apart from the Any keyword), the priority prescribes nothing.
PriorityLevel(adapter, text) ==
    IF Contains(InternKeyword, text) THEN {ExperienceLevel.INTERN}
    ELSE IF Contains(Chars("intern"), lower(text)) THEN AnyLevel
    ELSE IF Contains(AnyKeyword, text) THEN {ExperienceLevel.ANY}
    ELSE IF Contains(Hangul(<<"mu", "gwan">>), text) THEN AnyLevel
    ELSE IF Contains(EntryKeyword, text) THEN {ExperienceLevel.ENTRY}
    ELSE IF Contains(Hangul(<<"gyeong", "ryeok">>), text) THEN AnyLevel
    ELSE {AdapterDefault(adapter)}

C19_OnePriorityForAllAdapters ==
    (op = "experience_level") => ret[1] \in PriorityLevel(arg.adapter, arg.text)

\* The adapters with a _determine_experience_level of their own follow the
\* priority; JobKoreaCrawler's inline branch is the one that does not.
C19_AllButJobKorea ==
    (op = "experience_level" /\ arg.adapter # "jobkorea")
        => ret[1] \in PriorityLevel(arg.adapter, arg.text)

\* C20: for a partial month/day deadline text such as "03/15" evaluated at
\* time now, an adapter's _parse_deadline returns midnight of that month/day
\* in the current year when that instant is not before now, and midnight of
\* that month/day in the next year otherwise; the deadline returned is never
\* before now.  Stated for the texts written the way the adapter reads a
\* month/day, and for the cases where the calendar has the day the claim
\* names.
RolledOver(call) ==
    IF Earlier(<<call.today[1], call.month, call.day, 0>>, call.today)
    THEN <<call.today[1] + 1, call.month, call.day, 0>>
    ELSE <<call.today[1], call.month, call.day, 0>>

\* The ways of writing a month/day text that each adapter reads as one.
ReadBy(adapter) ==
    CASE adapter = "saramin" -> {"~MM/DD", "~ MM.DD"}
      [] adapter = "jobtalio" -> {"MM/DD", "~MM/DD"}
      [] adapter = "inthiswork" -> MonthDayStyles

\* Where the calendar has the day the claim names.
C20_MonthDayRollsOver ==
    (/\ op = "parse_deadline"
     /\ arg.style \in ReadBy(arg.adapter)
     /\ arg.day <= DaysInMonth(RolledOver(arg)[1], arg.month)) =>
        /\ ret = Returned(RolledOver(arg))
        /\ ~Earlier(ret.value, arg.today)

\* The same, for the days that the current year has as well.
C20_WhereThisYearHasTheDay ==
    (/\ op = "parse_deadline"
     /\ arg.style \in ReadBy(arg.adapter)
     /\ arg.day <= DaysInMonth(RolledOver(arg)[1], arg.month)
     /\ arg.day <= DaysInMonth(arg.today[1], arg.month)) =>
        /\ ret = Returned(RolledOver(arg))
        /\ ~Earlier(ret.value, arg.today)

\* C21: when export_jobs at time now receives a posting whose id is already
\* in the prior snapshot with first_seen_at = T, the entry it writes keeps
\* first_seen_at = T and has is_new = true exactly when now - T <= 48 hours:
\* true at T+47h and at exactly T+48h, false at T+49h.
C21_ResightedIsNewByAge ==
    \A jobs \in Batches :
        LET prior == LoadExisting(file)
            written == export_jobs(file, jobs, now).jobs
        IN \A i \in (DOMAIN prior \cap BatchIds(jobs)) \cap DOMAIN written :
              /\ written[i].first_seen_at = prior[i].first_seen_at
              /\ written[i].is_new
                     = (now - fromisoformat(prior[i].first_seen_at) <= new_threshold_hours)

\* A snapshot that holds one posting first seen exactly 48 hours ago and one
\* first seen 49 hours ago: re-sighted now, the first is new and the second
\* is not.
C21_Witness ==
    /\ file.exists
    /\ \E i, j \in DOMAIN file.jobs :
          /\ now - fromisoformat(file.jobs[i].first_seen_at) = new_threshold_hours
          /\ now - fromisoformat(file.jobs[j].first_seen_at) = new_threshold_hours + 1
          /\ LET written == export_jobs(file, <<JobPosting(i, None), JobPosting(j, None)>>,
                                        now).jobs
             IN written[i].is_new /\ ~written[j].is_new

\* C22: save_jobs applied to a posting whose id is already in the store
\* changes only title, company_name, deadline, deadline_text, updated_at and
\* is_new of that row; the row's source, source_id, source_url, crawled_at
\* and is_active, and every other row, are left unchanged.
C22_UpdateFrame ==
    [][(op' = "save_jobs" /\ arg'[1].id \in DOMAIN db) =>
          /\ DOMAIN db' = DOMAIN db
          /\ \A i \in DOMAIN db :
                IF i = arg'[1].id
                THEN /\ db'[i].id = db[i].id
                     /\ db'[i].source = db[i].source
                     /\ db'[i].source_id = db[i].source_id
                     /\ db'[i].source_url = db[i].source_url
                     /\ db'[i].crawled_at = db[i].crawled_at
                     /\ db'[i].is_active = db[i].is_active
                ELSE db'[i] = db[i]]_vars

\* A row that expired and was re-sighted, later and under another link, has
\* been updated beside another row.
C22_Witness ==
    /\ op = "save_jobs"
    /\ arg[1].id \in DOMAIN db
    /\ LET row == db[arg[1].id]
       IN /\ row.updated_at = Some(now)
          /\ row.title = arg[1].title
          /\ row.source_url # arg[1].source_url
          /\ row.crawled_at # arg[1].crawled_at
          /\ ~row.is_active
    /\ Cardinality(DOMAIN db) = 2

\* C23: within an adapter's crawl(), a failed fetch for one keyword
\* contributes no postings and does not prevent the fetches for the remaining
\* keywords from being issued; no failed request is re-issued, and crawl()
\* returns the deduplicated, filtered postings of the fetches that succeeded,
\* in the order the requests were made.
C23_FailedFetchIsSkipped ==
    op = "crawl" =>
        LET requests == ret[1].requests
            Succeeded(url) == /\ ~arg.responses[url].raised
                              /\ arg.responses[url].status = 200
            Fetched(k) == IF Succeeded(requests[k]) THEN arg.responses[requests[k]].text
                          ELSE <<>>
            RECURSIVE FetchedFrom(_)
            FetchedFrom(k) == IF k > Len(requests) THEN <<>>
                              ELSE Fetched(k) \o FetchedFrom(k + 1)
        IN /\ \A k \in DOMAIN SEARCH_KEYWORDS(arg.adapter) :
                 \E r \in DOMAIN requests :
                    LET query == "=" \o SEARCH_KEYWORDS(arg.adapter)[k]
                        from == Len(requests[r]) - Len(query) + 1
                    IN SubSeq(requests[r], from, Len(requests[r])) = query
           /\ \A r, s \in DOMAIN requests : requests[r] = requests[s] => r = s
           /\ ret[1].jobs = UniqueJobs(FetchedFrom(1), {})

\* The first search failed, a later one succeeded and its postings came back.
C23_Witness ==
    /\ op = "crawl"
    /\ LET requests == ret[1].requests
       IN /\ arg.responses[requests[1]].raised
          /\ arg.responses[requests[2]].status = 500
          /\ \E r \in DOMAIN requests : arg.responses[requests[r]].status = 200
          /\ ret[1].jobs # <<>>

\* C24: the snapshot's stats.expiring_7days equals the number of postings in
\* its jobs array whose deadline d satisfies now <= d <= now + 7 days.
C24_ExpiringWithinSevenDays ==
    op = "export_jobs" =>
        file.stats.expiring_7days =
            Cardinality({i \in DOMAIN file.jobs :
                            /\ file.jobs[i].deadline # None
                            /\ now <= fromisoformat(file.jobs[i].deadline)
                            /\ fromisoformat(file.jobs[i].deadline) <= now + 7 * 24})

\* What the code counts: the deadlines from now up to, not including, the end
\* of the eighth day.
C24_CountsWholeDays ==
    op = "export_jobs" =>
        file.stats.expiring_7days =
            Cardinality({i \in DOMAIN file.jobs :
                            /\ file.jobs[i].deadline # None
                            /\ now <= fromisoformat(file.jobs[i].deadline)
                            /\ fromisoformat(file.jobs[i].deadline) < now + 8 * 24})

\* C25: in the store, under any sequence of save_jobs, mark_as_read and
\* mark_expired_jobs, once a row's is_new is false it is never true again: no
\* later crawl of the same id undoes a mark_as_read.
C25_ReadStaysRead ==
    [][\A i \in DOMAIN db :
          ~db[i].is_new => (i \in DOMAIN db' /\ ~db'[i].is_new)]_vars

\* A run has re-sighted a row that was not new, beside a row it inserted.
C25_Witness ==
    /\ op \in {"save_jobs", "run_crawlers"}
    /\ \E i, j \in DOMAIN db : ~db[i].is_new /\ db[j].is_new

\* C26: after every completed crawl-to-json run, the snapshot file contains no
\* posting whose deadline is before the time of that run, and its stats are
\* those computed by that run, also when the adapters returned no postings.
C26_SnapshotIsOfThisRun ==
    (op = "crawl_to_json" /\ file.exists) =>
        /\ \A i \in DOMAIN file.jobs : ~IsExpiredDict(file.jobs[i], now)
        /\ file.stats = calculate_stats(file.jobs, now)

\* A run that collected at least one posting leaves such a file.
C26_WhenBatchNotEmpty ==
    \A total_jobs \in Batches \ {<<>>} :
        LET written == crawl_to_json(file, total_jobs, now)
        IN /\ written.exists
           /\ \A i \in DOMAIN written.jobs : ~IsExpiredDict(written.jobs[i], now)
           /\ written.stats = calculate_stats(written.jobs, now)

\* C27: at any time, the store's list queries get_all_jobs, get_jobs_by_source
\* and get_new_jobs, and the total of get_statistics, never include a posting
\* whose deadline is non-null and strictly before the time of the query.
C27_QueriesSkipPassedDeadlines ==
    LET Listed == get_all_jobs(db) \cup get_new_jobs(db)
                    \cup UNION {get_jobs_by_source(db, source) : source \in JobSources}
    IN /\ \A i \in Listed : ~DeadlinePassed(db[i], now)
       /\ get_statistics(db, now).total
              = Cardinality({i \in get_all_jobs(db) : ~DeadlinePassed(db[i], now)})

\* Right after mark_expired_jobs the queries return no posting whose deadline
\* has passed.
C27_RightAfterMarking ==
    op = "mark_expired_jobs" =>
        /\ \A i \in get_all_jobs(db) \cup get_new_jobs(db)
                      \cup UNION {get_jobs_by_source(db, source) : source \in JobSources} :
              ~DeadlinePassed(db[i], now)
        /\ get_statistics(db, now).total
               = Cardinality({i \in get_all_jobs(db) : ~DeadlinePassed(db[i], now)})

\* C28: if two export_jobs runs on the same snapshot file overlap, so that
\* both read the prior file before either writes, the final file still
\* contains every non-expired posting of both batches and of the prior
\* snapshot.
C28_OverlapLosesNothing ==
    (/\ \A p \in {1, 2} : arg[p].pc = "written"
     /\ \E p \in {1, 2} : arg[p].overlapped) =>
        \A p \in {1, 2} :
            \A i \in BatchIds(arg[p].jobs) \cup DOMAIN arg[p].read.jobs :
                i \in DOMAIN file.jobs

\* Two runs, one after the other, lose nothing.
C28_InTurnLosesNothing ==
    (/\ \A p \in {1, 2} : arg[p].pc = "written"
     /\ \A p \in {1, 2} : ~arg[p].overlapped) =>
        \E last \in {1, 2} :
            \A i \in BatchIds(arg[last].jobs) \cup DOMAIN arg[last].read.jobs :
                i \in DOMAIN file.jobs

C30_DamagedFileIsEmptyLedger ==
    (file.exists /\ "jobs" \notin DOMAIN file) =>
        \A jobs \in Batches :
            LET written == export_jobs(file, jobs, now)
            IN /\ written.exists
               /\ DOMAIN written.jobs =
                      {i \in BatchIds(jobs) :
                          ~DeadlineBefore(MergedDeadline(<<>>, jobs, i), now)}
               /\ \A i \in DOMAIN written.jobs :
                     /\ written.jobs[i].deadline = MergedDeadline(<<>>, jobs, i)
                     /\ written.jobs[i].first_seen_at = isoformat(now)
                     /\ written.jobs[i].is_new

\* A damaged file that held a posting first seen before the freshness window
\* and a posting that has expired since.
C30_Witness ==
    /\ file.exists
    /\ "jobs" \notin DOMAIN file
    /\ \E i, j \in DOMAIN file.text :
          /\ fromisoformat(file.text[i].first_seen_at) + new_threshold_hours < now
          /\ DeadlineBefore(file.text[j].deadline, now)

====
